---- MODULE Spec2Model ----
(***************************************************************************)
(* Model of the Slack URL resolver of mcp-demo (src/src/slack-url-parser.ts)*)
(* and of the callers that consume its result.                             *)
(*                                                                         *)
(* A JavaScript string is modelled as a sequence of one-character strings, *)
(* so that the regular expressions, String.prototype methods and the URL   *)
(* constructor the code relies on are computed character by character.     *)
(* The optional fields of SlackUrlInfo hold Undefined when they are absent. *)
(***************************************************************************)
EXTENDS FiniteSets, Integers, Sequences, TLC

VARIABLES
    url,    \* the input string handed to the resolver
    gate,   \* outcome of isSlackUrl(url): "true" or "false"; "pending" before
    info,   \* outcome of parseSlackUrl(url): a SlackUrlInfo or Null; Pending before
    tsIn,   \* the string handed to parseSlackTimestamp
    tsOut,  \* outcome of parseSlackTimestamp(tsIn); TsPending before
    req,        \* the arguments of the tool request under service
    world,      \* what the Slack API answers to each call
    variant,    \* per request: the server that serves it
    pc,         \* per request: the await at which its handler is suspended
    steps,      \* per request: the parser functions evaluated, in order
    calls,      \* per request: the Slack API calls issued, in order
    urlInfo,    \* per request: the handler's local urlInfo
    userCache,  \* per Map instance: user id -> cached name and its writer
    cacheLog,   \* per request: the has/get/set operations on its userCache
    fm,         \* per request: the formatMessage promises of its messages
    result      \* per request: what the handler returned or threw

parserVars == <<url, gate, info>>

tsVars == <<tsIn, tsOut>>

serverVars ==
    <<req, world, variant, pc, steps, calls, urlInfo, userCache, cacheLog,
      fm, result>>

vars == <<parserVars, tsVars, serverVars>>

----------------------------------------------------------------------------
(* Characters and the String.prototype methods the code uses.              *)

Digit == {"0", "1", "2", "3", "4", "5", "6", "7", "8", "9"}

UpperCase == <<"A", "B", "C", "D", "E", "F", "G", "H", "I", "J", "K", "L", "M",
               "N", "O", "P", "Q", "R", "S", "T", "U", "V", "W", "X", "Y", "Z">>

LowerCase == <<"a", "b", "c", "d", "e", "f", "g", "h", "i", "j", "k", "l", "m",
               "n", "o", "p", "q", "r", "s", "t", "u", "v", "w", "x", "y", "z">>

Upper == {UpperCase[i] : i \in DOMAIN UpperCase}

Lower == {LowerCase[i] : i \in DOMAIN LowerCase}

Alpha == Upper \cup Lower

\* undefined, as the value of an optional string field
Undefined == <<"undefined">>

toLowerChar(c) ==
    IF c \in Upper
    THEN LowerCase[CHOOSE i \in DOMAIN UpperCase : UpperCase[i] = c]
    ELSE c

toLowerCase(s) == [i \in DOMAIN s |-> toLowerChar(s[i])]

\* s.slice(from, to): 0-based, `to` exclusive
slice(s, from, to) == SubSeq(s, from + 1, to)

\* s.startsWith(p)
startsWith(s, p) == Len(s) >= Len(p) /\ SubSeq(s, 1, Len(p)) = p

\* s.endsWith(p)
endsWith(s, p) ==
    Len(s) >= Len(p) /\ SubSeq(s, Len(s) - Len(p) + 1, Len(s)) = p

\* the timestamp conversion not yet called
TsPending == <<"pending">>

\* s.includes(c) for a one-character needle
includes(s, c) == \E i \in DOMAIN s : s[i] = c

\* 1-based position of the first character of s in set C at or after
\* position from, or Len(s) + 1 when there is none
FirstIn(s, from, C) ==
    IF \E i \in from..Len(s) : s[i] \in C
    THEN CHOOSE i \in from..Len(s) :
            s[i] \in C /\ \A j \in from..(i - 1) : s[j] \notin C
    ELSE Len(s) + 1

\* 1-based position of the first character of s NOT in set C at or after
\* position from, or Len(s) + 1: the end of a greedy run C* started at from
RunEnd(s, from, C) ==
    IF \E i \in from..Len(s) : s[i] \notin C
    THEN CHOOSE i \in from..Len(s) :
            s[i] \notin C /\ \A j \in from..(i - 1) : s[j] \in C
    ELSE Len(s) + 1

\* s.split(sep) for a one-character separator: always at least one part
RECURSIVE split(_, _)
split(s, sep) ==
    LET k == FirstIn(s, 1, {sep})
    IN  IF k > Len(s)
        THEN <<s>>
        ELSE <<SubSeq(s, 1, k - 1)>> \o split(SubSeq(s, k + 1, Len(s)), sep)

\* parts.join(sep)
RECURSIVE join(_, _)
join(parts, sep) ==
    IF Len(parts) = 0 THEN <<>>
    ELSE IF Len(parts) = 1 THEN parts[1]
    ELSE parts[1] \o <<sep>> \o join(Tail(parts), sep)

----------------------------------------------------------------------------
(* new URL(url): the fragment of the WHATWG URL parser the inputs exercise. *)
(* Modelled: trimming of surrounding spaces, the scheme and its case       *)
(* folding, special (http, https) against other schemes, the slashes       *)
(* before the authority, the port, host validation and lower-casing,       *)
(* removal of dot segments, the query and the fragment.  Not modelled:     *)
(* credentials, percent-encoding, backslashes, IDNA and IP literals; the   *)
(* inputs contain none of the characters involved.                         *)

SchemeChar == Alpha \cup Digit \cup {"+", "-", "."}

ForbiddenHostChar == {" ", "#", "/", ":", "<", ">", "?", "@", "[", "\\", "]", "^", "|", "%"}

SpecialSchemes == {<<"h", "t", "t", "p">>, <<"h", "t", "t", "p", "s">>}

\* strip leading and trailing spaces
RECURSIVE trim(_)
trim(s) ==
    IF Len(s) > 0 /\ s[1] = " " THEN trim(Tail(s))
    ELSE IF Len(s) > 0 /\ s[Len(s)] = " " THEN trim(SubSeq(s, 1, Len(s) - 1))
    ELSE s

\* remove "." and ".." segments; segs are the parts of the path after its
\* leading slash, out is the list built so far
RECURSIVE removeDotSegments(_, _)
removeDotSegments(segs, out) ==
    IF Len(segs) = 0 THEN out
    ELSE LET seg  == segs[1]
             last == Len(segs) = 1
         IN  IF seg = <<".", ".">>
             THEN removeDotSegments(Tail(segs),
                     (IF Len(out) > 0 THEN SubSeq(out, 1, Len(out) - 1) ELSE out)
                     \o (IF last THEN << <<>> >> ELSE <<>>))
             ELSE IF seg = <<".">>
             THEN removeDotSegments(Tail(segs),
                     out \o (IF last THEN << <<>> >> ELSE <<>>))
             ELSE removeDotSegments(Tail(segs), Append(out, seg))

\* the pathname of a hierarchical URL from the raw text after the authority
normalizePath(raw) ==
    IF Len(raw) = 0 THEN <<"/">>
    ELSE <<"/">> \o join(removeDotSegments(split(Tail(raw), "/"), <<>>), "/")

Failure == [ok |-> FALSE, hostname |-> <<>>, pathname |-> <<>>, search |-> <<>>]

\* the URL record, or Failure where the constructor throws TypeError
URL(input) ==
    LET t      == trim(input)
        colon  == FirstIn(t, 1, {":"})
        scheme == toLowerCase(SubSeq(t, 1, colon - 1))
        hash   == FirstIn(t, colon + 1, {"#"})
        rest   == SubSeq(t, colon + 1, hash - 1)
        special == scheme \in SpecialSchemes
        \* a special scheme skips every slash before the authority; another
        \* scheme has an authority only after exactly "//"
        astart == IF special THEN RunEnd(rest, 1, {"/"})
                  ELSE IF startsWith(rest, <<"/", "/">>) THEN 3 ELSE 0
        aend   == IF astart = 0 THEN 0 ELSE FirstIn(rest, astart, {"/", "?"})
        auth   == IF astart = 0 THEN <<>> ELSE SubSeq(rest, astart, aend - 1)
        pcolon == FirstIn(auth, 1, {":"})
        host   == SubSeq(auth, 1, pcolon - 1)
        port   == SubSeq(auth, pcolon + 1, Len(auth))
        tail   == IF astart = 0 THEN rest ELSE SubSeq(rest, aend, Len(rest))
        qmark  == FirstIn(tail, 1, {"?"})
        rawpath == SubSeq(tail, 1, qmark - 1)
        query  == SubSeq(tail, qmark, Len(tail))
    IN  IF \/ colon > Len(t)
           \/ colon = 1
           \/ t[1] \notin Alpha
           \/ \E i \in 1..(colon - 1) : t[i] \notin SchemeChar
        THEN Failure                      \* relative URL without a base
        ELSE IF astart = 0                \* no authority: an empty host
        THEN [ok |-> TRUE, hostname |-> <<>>,
              pathname |-> IF startsWith(rawpath, <<"/">>)
                           THEN normalizePath(rawpath) ELSE rawpath,
              search |-> IF Len(query) > 1 THEN query ELSE <<>>]
        ELSE IF \/ special /\ Len(host) = 0
                \/ \E i \in DOMAIN host : host[i] \in ForbiddenHostChar
                \/ \E i \in DOMAIN port : port[i] \notin Digit
        THEN Failure                      \* invalid host or port
        ELSE [ok |-> TRUE,
              hostname |-> IF special THEN toLowerCase(host) ELSE host,
              pathname |-> IF special \/ Len(rawpath) > 0
                           THEN normalizePath(rawpath) ELSE <<>>,
              search |-> IF Len(query) > 1 THEN query ELSE <<>>]

nameThreadTs == <<"t", "h", "r", "e", "a", "d", "_", "t", "s">>

\* application/x-www-form-urlencoded decoding of one name or value
formDecode(s) == [i \in DOMAIN s |-> IF s[i] = "+" THEN " " ELSE s[i]]

\* parsed.searchParams.get(name): the value of the first pair so named, or
\* Undefined (null) when there is none
RECURSIVE getParam(_, _)
getParam(pairs, name) ==
    IF Len(pairs) = 0 THEN Undefined
    ELSE LET p  == pairs[1]
             eq == FirstIn(p, 1, {"="})
         IN  IF Len(p) > 0 /\ formDecode(SubSeq(p, 1, eq - 1)) = name
             THEN formDecode(SubSeq(p, eq + 1, Len(p)))
             ELSE getParam(Tail(pairs), name)

searchParamsGet(parsed, name) ==
    IF Len(parsed.search) = 0 THEN Undefined
    ELSE getParam(split(Tail(parsed.search), "&"), name)

----------------------------------------------------------------------------
(* Regular-expression steps.  Each takes the 1-based position where the    *)
(* step starts and gives the position after it, or 0 when the step (or an  *)
(* earlier one) fails.  Every class the code repeats is followed by a      *)
(* literal outside the class, so the greedy run needs no backtracking.     *)

\* [A-Z0-9] under the i flag
IdChar == Alpha \cup Digit

\* a literal under the i flag
\* matchLiteral without the i flag
matchLiteralCaseSensitive(s, pos, lit) ==
    IF /\ pos > 0
       /\ pos + Len(lit) - 1 <= Len(s)
       /\ SubSeq(s, pos, pos + Len(lit) - 1) = lit
    THEN pos + Len(lit)
    ELSE 0

matchLiteral(s, pos, lit) ==
    IF /\ pos > 0
       /\ pos + Len(lit) - 1 <= Len(s)
       /\ toLowerCase(SubSeq(s, pos, pos + Len(lit) - 1)) = toLowerCase(lit)
    THEN pos + Len(lit)
    ELSE 0

\* C+ for a character class C
matchPlus(s, pos, C) ==
    IF pos > 0 /\ pos <= Len(s) /\ s[pos] \in C THEN RunEnd(s, pos, C) ELSE 0

\* x? for a one-character literal x
matchOptional(s, pos, c) ==
    IF pos > 0 /\ pos <= Len(s) /\ s[pos] = c THEN pos + 1 ELSE pos

\* $ (no m flag): only the end of the string
matchEnd(s, pos) == pos > 0 /\ pos = Len(s) + 1

NoMatch == [matched |-> FALSE, g1 |-> <<>>, g2 |-> <<>>]

kwArchives == <<"a", "r", "c", "h", "i", "v", "e", "s">>

kwClient == <<"c", "l", "i", "e", "n", "t">>

kwThread == <<"t", "h", "r", "e", "a", "d">>

\* pathname.match(/^\/archives\/([A-Z0-9]+)\/p(\d+)$/i)
archivesMatch(pathname) ==
    LET a == matchLiteral(pathname, 1, <<"/">> \o kwArchives \o <<"/">>)
        b == matchPlus(pathname, a, IdChar)
        c == matchLiteral(pathname, b, <<"/", "p">>)
        d == matchPlus(pathname, c, Digit)
    IN  IF matchEnd(pathname, d)
        THEN [matched |-> TRUE,
              g1 |-> SubSeq(pathname, a, b - 1),
              g2 |-> SubSeq(pathname, c, d - 1)]
        ELSE NoMatch

\* the client pattern with its first group around the prefix of the last
\* segment instead of the second segment
clientMatchOwner(pathname) ==
    LET a == matchLiteral(pathname, 1, <<"/">> \o kwClient \o <<"/">>)
        b == matchPlus(pathname, a, IdChar)
        c == matchLiteral(pathname, b, <<"/">>)
        d == matchPlus(pathname, c, IdChar)
        e == matchLiteral(pathname, d, <<"/">> \o kwThread \o <<"/">>)
        f == matchPlus(pathname, e, IdChar)
        g == matchLiteral(pathname, f, <<"-">>)
        h == matchPlus(pathname, g, Digit)
        i == matchLiteral(pathname, h, <<".">>)
        j == matchPlus(pathname, i, Digit)
    IN  IF matchEnd(pathname, j)
        THEN [matched |-> TRUE,
              g1 |-> SubSeq(pathname, e, f - 1),
              g2 |-> SubSeq(pathname, g, j - 1)]
        ELSE NoMatch

\* pathname.match(/^\/client\/[A-Z0-9]+\/([A-Z0-9]+)\/thread\/[A-Z0-9]+-(\d+\.\d+)$/i)
clientMatch(pathname) ==
    LET a == matchLiteral(pathname, 1, <<"/">> \o kwClient \o <<"/">>)
        b == matchPlus(pathname, a, IdChar)
        c == matchLiteral(pathname, b, <<"/">>)
        d == matchPlus(pathname, c, IdChar)
        e == matchLiteral(pathname, d, <<"/">> \o kwThread \o <<"/">>)
        f == matchPlus(pathname, e, IdChar)
        g == matchLiteral(pathname, f, <<"-">>)
        h == matchPlus(pathname, g, Digit)
        i == matchLiteral(pathname, h, <<".">>)
        j == matchPlus(pathname, i, Digit)
    IN  IF matchEnd(pathname, j)
        THEN [matched |-> TRUE,
              g1 |-> SubSeq(pathname, c, d - 1),
              g2 |-> SubSeq(pathname, g, j - 1)]
        ELSE NoMatch

\* the channel pattern without its optional trailing slash
channelMatchNoSlash(pathname) ==
    LET a == matchLiteral(pathname, 1, <<"/">> \o kwArchives \o <<"/">>)
        b == matchPlus(pathname, a, IdChar)
    IN  IF matchEnd(pathname, b)
        THEN [matched |-> TRUE, g1 |-> SubSeq(pathname, a, b - 1), g2 |-> <<>>]
        ELSE NoMatch

\* the channel pattern without its $ anchor
channelMatchUnanchored(pathname) ==
    LET a == matchLiteral(pathname, 1, <<"/">> \o kwArchives \o <<"/">>)
        b == matchPlus(pathname, a, IdChar)
    IN  IF b > 0
        THEN [matched |-> TRUE, g1 |-> SubSeq(pathname, a, b - 1), g2 |-> <<>>]
        ELSE NoMatch

\* pathname.match(/^\/archives\/([A-Z0-9]+)\/?$/i)
channelMatch(pathname) ==
    LET a == matchLiteral(pathname, 1, <<"/">> \o kwArchives \o <<"/">>)
        b == matchPlus(pathname, a, IdChar)
        c == matchOptional(pathname, b, "/")
    IN  IF matchEnd(pathname, c)
        THEN [matched |-> TRUE, g1 |-> SubSeq(pathname, a, b - 1), g2 |-> <<>>]
        ELSE NoMatch

----------------------------------------------------------------------------
(* src/src/slack-url-parser.ts                                             *)

CompactLen == 16

SecondsLen == 10

\* parseSlackTimestamp without the split of a 16-character run
parseSlackTimestampNoSplit(urlTs) ==
    IF startsWith(urlTs, <<"p">>) THEN slice(urlTs, 1, Len(urlTs)) ELSE urlTs

\* parseSlackTimestamp with the test for a dot moved before the length test
parseSlackTimestampDotFirst(urlTs) ==
    LET ts == IF startsWith(urlTs, <<"p">>)
              THEN slice(urlTs, 1, Len(urlTs)) ELSE urlTs
    IN  IF includes(ts, ".") THEN ts
        ELSE IF Len(ts) = CompactLen
        THEN slice(ts, 0, SecondsLen) \o <<".">> \o slice(ts, SecondsLen, Len(ts))
        ELSE ts

\* parseSlackTimestamp splitting every run of 16 characters or more
parseSlackTimestampSplitLong(urlTs) ==
    LET ts == IF startsWith(urlTs, <<"p">>)
              THEN slice(urlTs, 1, Len(urlTs)) ELSE urlTs
    IN  IF Len(ts) >= CompactLen
        THEN slice(ts, 0, SecondsLen) \o <<".">> \o slice(ts, SecondsLen, Len(ts))
        ELSE IF includes(ts, ".") THEN ts
        ELSE ts

\* parseSlackTimestamp(urlTs)
parseSlackTimestamp(urlTs) ==
    LET ts == IF startsWith(urlTs, <<"p">>)
              THEN slice(urlTs, 1, Len(urlTs)) ELSE urlTs
    IN  IF Len(ts) = CompactLen
        THEN slice(ts, 0, SecondsLen) \o <<".">> \o slice(ts, SecondsLen, Len(ts))
        ELSE IF includes(ts, ".") THEN ts
        ELSE ts

\* outcomes of a call: a SlackUrlInfo, null, or an exception leaving the call
Null ==
    [kind |-> "null", workspace |-> Undefined, channelId |-> <<>>,
     messageTs |-> <<>>, threadTs |-> Undefined]

Thrown ==
    [kind |-> "throw", workspace |-> Undefined, channelId |-> <<>>,
     messageTs |-> <<>>, threadTs |-> Undefined]

Pending ==
    [kind |-> "pending", workspace |-> Undefined, channelId |-> <<>>,
     messageTs |-> <<>>, threadTs |-> Undefined]

SlackUrlInfo(ws, channel, message, thread) ==
    [kind |-> "info", workspace |-> ws, channelId |-> channel,
     messageTs |-> message, threadTs |-> thread]

hostParts(parsed) == split(parsed.hostname, ".")

kwApp == <<"a", "p", "p">>

\* the workspace without the test for the app host
workspaceNoAppCheck(parsed) == hostParts(parsed)[1]

\* hostParts[0] !== "app" ? hostParts[0] : undefined
workspace(parsed) ==
    IF hostParts(parsed)[1] # kwApp THEN hostParts(parsed)[1] ELSE Undefined

\* Format 1 with `threadTs ?? messageTs` in place of `threadTs || messageTs`
archivesResultNullish(parsed) ==
    LET m         == archivesMatch(parsed.pathname)
        messageTs == parseSlackTimestamp(m.g2)
        threadTs  == searchParamsGet(parsed, nameThreadTs)
    IN  SlackUrlInfo(workspace(parsed), m.g1, messageTs,
            IF threadTs # Undefined THEN threadTs ELSE messageTs)

\* Format 1 with the default thread taken from the raw digit run
archivesResultRawThread(parsed) ==
    LET m         == archivesMatch(parsed.pathname)
        messageTs == parseSlackTimestamp(m.g2)
        threadTs  == searchParamsGet(parsed, nameThreadTs)
    IN  SlackUrlInfo(workspace(parsed), m.g1, messageTs,
            IF threadTs # Undefined /\ threadTs # <<>> THEN threadTs
            ELSE m.g2)

\* Format 1: /archives/CHANNEL_ID/pTIMESTAMP
archivesResult(parsed) ==
    LET m         == archivesMatch(parsed.pathname)
        channelId == m.g1
        messageTs == parseSlackTimestamp(m.g2)
        threadTs  == searchParamsGet(parsed, nameThreadTs)
    IN  SlackUrlInfo(workspace(parsed), channelId, messageTs,
            \* threadTs || messageTs
            IF threadTs # Undefined /\ threadTs # <<>> THEN threadTs
            ELSE messageTs)

\* Format 2: /client/TEAM_ID/CHANNEL_ID/thread/CHANNEL_ID-TIMESTAMP
clientResult(parsed) ==
    LET m == clientMatch(parsed.pathname)
    IN  SlackUrlInfo(workspace(parsed), m.g1, m.g2, m.g2)

\* Format 3 with `threadTs: messageTs` in place of `threadTs: undefined`
channelResultEmptyThread(parsed) ==
    LET m == channelMatch(parsed.pathname)
    IN  SlackUrlInfo(workspace(parsed), m.g1, <<>>, <<>>)

\* Format 3: just channel link /archives/CHANNEL_ID
channelResult(parsed) ==
    LET m == channelMatch(parsed.pathname)
    IN  SlackUrlInfo(workspace(parsed), m.g1, <<>>, Undefined)

shapeMatches(shape, parsed) ==
    CASE shape = "archives" -> archivesMatch(parsed.pathname).matched
      [] shape = "client"   -> clientMatch(parsed.pathname).matched
      [] shape = "channel"  -> channelMatch(parsed.pathname).matched

shapeResult(shape, parsed) ==
    CASE shape = "archives" -> archivesResult(parsed)
      [] shape = "client"   -> clientResult(parsed)
      [] shape = "channel"  -> channelResult(parsed)

\* the chain of `if (match) return ...;` ending in `return null`
RECURSIVE firstMatch(_, _)
firstMatch(order, parsed) ==
    IF Len(order) = 0 THEN Null
    ELSE IF shapeMatches(order[1], parsed) THEN shapeResult(order[1], parsed)
    ELSE firstMatch(Tail(order), parsed)

\* the body of parseSlackUrl's try block with the shapes tried in `order`
resolveInOrder(u, order) ==
    LET parsed == URL(u)
    IN  IF ~parsed.ok THEN Thrown ELSE firstMatch(order, parsed)

\* the order in which the code tries the shapes
ShapeOrder == <<"archives", "client", "channel">>

\* parseSlackUrl with the catch clause left out
parseSlackUrlNoCatch(u) == resolveInOrder(u, ShapeOrder)

\* parseSlackUrl(url): try { ... } catch { return null }
parseSlackUrl(u) ==
    LET r == resolveInOrder(u, ShapeOrder)
    IN  IF r.kind = "throw" THEN Null ELSE r

hSlackCom == <<"s", "l", "a", "c", "k", ".", "c", "o", "m">>

\* the try block with the suffix test written without its leading dot
hostnameCheckNoDot(u) ==
    LET parsed == URL(u)
    IN  IF ~parsed.ok THEN "throw"
        ELSE IF endsWith(parsed.hostname, hSlackCom) THEN "true"
        ELSE "false"

\* the body of isSlackUrl's try block
hostnameCheck(u) ==
    LET parsed == URL(u)
    IN  IF ~parsed.ok THEN "throw"
        ELSE IF \/ endsWith(parsed.hostname, <<".">> \o hSlackCom)
                \/ parsed.hostname = hSlackCom
        THEN "true"
        ELSE "false"

\* isSlackUrl(url): try { ... } catch { return false }
isSlackUrl(u) ==
    LET r == hostnameCheck(u)
    IN  IF r = "throw" THEN "false" ELSE r

----------------------------------------------------------------------------
(* The input strings.  A URL is the concatenation of a scheme prefix, a    *)
(* host, a path and a query, each drawn from a set that holds the forms    *)
(* the README documents, the forms the resolver must reject, and the       *)
(* variations on case, separators and lengths the code distinguishes.      *)

\* the longest digit run tried after /archives/<ID>/p
MaxDigits == 17

sHttps == <<"h", "t", "t", "p", "s", ":", "/", "/">>

sHttpUpper == <<"H", "T", "T", "P", ":", "/", "/">>

sCustom == <<"s", "l", "a", "c", "k", ":", "/", "/">>

\* <<>>: no scheme, so the string is not an absolute URL
Schemes == {sHttps, sHttpUpper, sCustom, <<>>}

hAcme ==
    <<"a", "c", "m", "e", ".", "s", "l", "a", "c", "k", ".", "c", "o", "m">>

hApp == <<"a", "p", "p", ".", "s", "l", "a", "c", "k", ".", "c", "o", "m">>

hNotSlack ==
    <<"n", "o", "t", "s", "l", "a", "c", "k", ".", "e", "x", "a", "m", "p",
    "l", "e", ".", "c", "o", "m">>

hNoDot == <<"n", "o", "t", "s", "l", "a", "c", "k", ".", "c", "o", "m">>

hNested == <<"a", ".", "b", ".", "s", "l", "a", "c", "k", ".", "c", "o", "m">>

hMixedCase ==
    <<"A", "C", "M", "E", ".", "S", "l", "a", "c", "k", ".", "C", "O", "M">>

hAppUpper ==
    <<"A", "P", "P", ".", "s", "l", "a", "c", "k", ".", "c", "o", "m">>

hPort ==
    <<"a", "c", "m", "e", ".", "s", "l", "a", "c", "k", ".", "c", "o", "m",
    ":", "8", "4", "4", "3">>

hTrailingDot ==
    <<"a", "c", "m", "e", ".", "s", "l", "a", "c", "k", ".", "c", "o", "m",
    ".">>

hSuffixed ==
    <<"s", "l", "a", "c", "k", ".", "c", "o", "m", ".", "e", "v", "i", "l",
    ".", "i", "o">>

hSpace ==
    <<"a", "c", " ", "m", "e", ".", "s", "l", "a", "c", "k", ".", "c", "o",
    "m">>

Hosts ==
    {hAcme, hApp, hSlackCom, hNotSlack, hNoDot, hNested, hMixedCase, hAppUpper,
     hPort, hTrailingDot, hSuffixed, hSpace, kwApp, <<>>}

CoreHosts == {hAcme, hApp}

kwArchivesUpper == <<"A", "R", "C", "H", "I", "V", "E", "S">>

kwArchive == <<"a", "r", "c", "h", "i", "v", "e">>

kwClientMixed == <<"C", "l", "i", "e", "n", "t">>

kwThreadUpper == <<"T", "H", "R", "E", "A", "D">>

idC123 == <<"C", "1", "2", "3">>

idLower == <<"c", "1", "a">>

idDash == <<"C", "-", "1">>

idTeam == <<"T", "1">>

idOther == <<"D", "7", "7">>

digitSource ==
    <<"1", "6", "0", "9", "4", "5", "9", "2", "0", "0", "1", "2", "3", "4",
    "5", "6", "7", "8", "9", "0">>

tsCanonical ==
    <<"1", "6", "0", "9", "4", "5", "9", "2", "0", "0", ".", "1", "2", "3",
    "4", "5", "6">>

tsShort == <<"1", ".", "2">>

tsCompact ==
    <<"1", "6", "0", "9", "4", "5", "9", "2", "0", "0", "1", "2", "3", "4",
    "5", "6">>

\* a timestamp with its dot that is 16 characters long
ts16WithDot ==
    <<"1", "6", "0", "9", "4", "5", "9", "2", "0", ".", "1", "2", "3", "4", "5", "6">>

\* a run of n digits
Digits(n) == SubSeq(digitSource, 1, n)

Slash == <<"/">>

\* what follows /archives/<ID>
ArchiveTails ==
    {<<>>, Slash, Slash \o Slash, <<"/", "p">>,
     <<"/", "p">> \o tsCompact,
     <<"/", "p">> \o tsCompact \o Slash,
     <<"/", "P">> \o tsCompact,
     <<"/", "x">> \o tsCompact,
     <<"/", "p">> \o tsCanonical,
     <<"/", "p">> \o tsCompact \o <<"/", "x">>,
     <<"/", ".", ".", "/">> \o idOther,
     <<"/", ".">>}

\* the tails under every keyword and ID, and digit runs of every length up
\* to MaxDigits under /archives/C123
ArchivePaths ==
    {Slash \o kw \o Slash \o id \o tail :
        kw \in {kwArchives, kwArchivesUpper, kwArchive},
        id \in {idC123, idLower, idDash, <<>>},
        tail \in ArchiveTails}
    \cup {Slash \o kwArchives \o Slash \o idC123 \o <<"/", "p">> \o Digits(n) :
        n \in 1..MaxDigits}

ClientPaths ==
    {Slash \o kc \o Slash \o team \o Slash \o chan \o Slash \o kt \o Slash
        \o owner \o <<"-">> \o ts \o tail :
        kc \in {kwClient, kwClientMixed},
        team \in {idTeam, <<>>},
        chan \in {idC123, idLower},
        kt \in {kwThread, kwThreadUpper},
        owner \in {idOther, <<>>},
        ts \in {tsCanonical, tsShort, tsCompact, ts16WithDot},
        tail \in {<<>>, Slash}}

OtherPaths ==
    {<<>>, Slash, <<"/", "x">>, Slash \o kwArchives, Slash \o kwClient,
     Slash \o kwClient \o Slash \o idTeam \o Slash \o idC123}

Paths == ArchivePaths \cup ClientPaths \cup OtherPaths

\* one path of each shape, for the inputs that vary the scheme and the host
CorePaths ==
    {Slash \o kwArchives \o Slash \o idC123 \o <<"/", "p">> \o tsCompact,
     Slash \o kwClient \o Slash \o idTeam \o Slash \o idC123 \o Slash
        \o kwThread \o Slash \o idC123 \o <<"-">> \o tsCanonical,
     Slash \o kwArchives \o Slash \o idC123,
     Slash \o kwArchives \o Slash,
     <<"/", "x">>}

qThread ==
    <<"?", "t", "h", "r", "e", "a", "d", "_", "t", "s", "=", "1", "6", "0",
    "9", "0", "0", "0", "0", "0", "0", ".", "0", "0", "0", "0", "0", "1">>

qEmptyThread == <<"?", "t", "h", "r", "e", "a", "d", "_", "t", "s", "=">>

qOther == <<"?", "c", "i", "d", "=", "C", "1", "2", "3">>

qSecond ==
    <<"?", "c", "i", "d", "=", "C", "1", "2", "3", "&", "t", "h", "r", "e",
    "a", "d", "_", "t", "s", "=", "1", "6", "0", "9", "0", "0", "0", "0",
    "0", "0", ".", "0", "0", "0", "0", "0", "1">>

qTwice ==
    <<"?", "t", "h", "r", "e", "a", "d", "_", "t", "s", "=", "1", "7", "0",
    "0", "0", "0", "0", "0", "0", "0", ".", "0", "0", "0", "0", "0", "2",
    "&", "t", "h", "r", "e", "a", "d", "_", "t", "s", "=", "1", "6", "0",
    "9", "0", "0", "0", "0", "0", "0", ".", "0", "0", "0", "0", "0", "1">>

qPlus ==
    <<"?", "t", "h", "r", "e", "a", "d", "_", "t", "s", "=", "1", "6", "0",
    "9", "+", "0", "0", "0">>

qWord ==
    <<"?", "t", "h", "r", "e", "a", "d", "_", "t", "s", "=", "a", "b", "c">>

qNoValue == <<"?", "t", "h", "r", "e", "a", "d", "_", "t", "s">>

qFragment ==
    <<"?", "t", "h", "r", "e", "a", "d", "_", "t", "s", "=", "1", "6", "0",
    "9", "0", "0", "0", "0", "0", "0", ".", "0", "0", "0", "0", "0", "1",
    "#", "t", "o", "p">>

Queries ==
    {<<>>, qThread, qEmptyThread, qOther, qSecond, qTwice, qPlus, qWord,
     qNoValue, qFragment}

CoreQueries == {<<>>, qThread}

Inputs ==
    {s \o h \o p \o q :
        s \in Schemes, h \in Hosts, p \in CorePaths, q \in CoreQueries}
    \cup {sHttps \o h \o p \o q :
        h \in CoreHosts, p \in Paths, q \in CoreQueries}
    \cup {sHttps \o hAcme \o p \o q : p \in ArchivePaths, q \in Queries}
    \cup {<<>>, <<" ">> \o sHttps \o hAcme \o Slash \o kwArchives \o Slash
                  \o idC123 \o <<" ">>}

----------------------------------------------------------------------------
(* The state machine: one input string, on which a caller evaluates the    *)
(* gate and the resolver, in either order.                                 *)

\* no call of parseSlackTimestamp on its own is under way
TsIdle == tsIn = <<>> /\ tsOut = TsPending

\* no tool request is being served
ServerIdle ==
    /\ req = <<>>
    /\ world = <<>>
    /\ variant = <<>>
    /\ pc = <<>>
    /\ steps = <<>>
    /\ calls = <<>>
    /\ urlInfo = <<>>
    /\ userCache = <<>>
    /\ cacheLog = <<>>
    /\ fm = <<>>
    /\ result = <<>>

Init ==
    /\ url \in Inputs
    /\ gate = "pending"
    /\ info = Pending
    /\ TsIdle
    /\ ServerIdle

\* a caller evaluates isSlackUrl(url)
CallIsSlackUrl ==
    /\ gate = "pending"
    /\ gate' = isSlackUrl(url)
    /\ UNCHANGED <<url, info, tsVars, serverVars>>

\* a caller evaluates parseSlackUrl(url)
CallParseSlackUrl ==
    /\ info.kind = "pending"
    /\ info' = parseSlackUrl(url)
    /\ UNCHANGED <<url, gate, tsVars, serverVars>>

Next == CallIsSlackUrl \/ CallParseSlackUrl

Spec == Init /\ [][Next]_vars

----------------------------------------------------------------------------
(* parseSlackTimestamp on its own: the function is applied to strings with *)
(* and without the p prefix, of every length up to MaxDigits, with and     *)
(* without a dot.                                                          *)

ts16Letters ==
    <<"a", "b", "c", "d", "e", "f", "g", "h", "i", "j", "k", "l", "m", "n", "o", "p">>

TsPrefixes == {<<>>, <<"p">>, <<"P">>, <<"p", "p">>}

TsBodies ==
    {Digits(n) : n \in 0..MaxDigits}
    \cup {tsCanonical, tsShort, ts16WithDot, ts16Letters}

TsInputs == {pre \o body : pre \in TsPrefixes, body \in TsBodies}

\* the resolver is not running
ParserIdle == url = <<>> /\ gate = "pending" /\ info = Pending

TsInit ==
    /\ tsIn \in TsInputs
    /\ tsOut = TsPending
    /\ ParserIdle
    /\ ServerIdle

\* a caller evaluates parseSlackTimestamp(tsIn)
CallParseSlackTimestamp ==
    /\ tsOut = TsPending
    /\ tsOut' = parseSlackTimestamp(tsIn)
    /\ UNCHANGED <<tsIn, parserVars, serverVars>>

TsNext == CallParseSlackTimestamp

TsSpec == TsInit /\ [][TsNext]_vars

----------------------------------------------------------------------------
(* Vocabulary of the properties.  The path shapes are stated here on the   *)
(* segments of the path, independently of the regular expressions above.   *)

parsedUrl == URL(url)

\* the segments of the parsed path: the text between its slashes
Segments == split(Tail(parsedUrl.pathname), "/")

HasPath == parsedUrl.ok /\ startsWith(parsedUrl.pathname, Slash)

\* a non-empty run of letters and digits
IsId(s) == Len(s) > 0 /\ \A i \in DOMAIN s : s[i] \in IdChar

\* a non-empty run of digits
IsDigitRun(s) == Len(s) > 0 /\ \A i \in DOMAIN s : s[i] \in Digit

\* <digits>.<digits>
IsDottedTs(s) ==
    \E k \in DOMAIN s :
        /\ s[k] = "."
        /\ IsDigitRun(SubSeq(s, 1, k - 1))
        /\ IsDigitRun(SubSeq(s, k + 1, Len(s)))

\* the canonical form: exactly 10 digits, a dot, exactly 6 digits
IsCanonicalTs(s) ==
    /\ Len(s) = 17
    /\ s[11] = "."
    /\ \A i \in (1..10) \cup (12..17) : s[i] \in Digit

\* /archives/<ID>/p<digits>
ArchiveForm ==
    /\ HasPath
    /\ Len(Segments) = 3
    /\ toLowerCase(Segments[1]) = kwArchives
    /\ IsId(Segments[2])
    /\ Len(Segments[3]) > 1
    /\ Segments[3][1] \in {"p", "P"}
    /\ IsDigitRun(Tail(Segments[3]))

\* the digit run of an archive-message path
ArchiveDigits == Tail(Segments[3])

\* position of the dash in the last segment of a client-thread path
DashAt == FirstIn(Segments[5], 1, {"-"})

\* /client/<TEAM>/<ID>/thread/<ANY>-<seconds.micros>
ClientForm ==
    /\ HasPath
    /\ Len(Segments) = 5
    /\ toLowerCase(Segments[1]) = kwClient
    /\ IsId(Segments[2])
    /\ IsId(Segments[3])
    /\ toLowerCase(Segments[4]) = kwThread
    /\ IsId(SubSeq(Segments[5], 1, DashAt - 1))
    /\ IsDottedTs(SubSeq(Segments[5], DashAt + 1, Len(Segments[5])))

\* the trailing timestamp of a client-thread path
ClientTs == SubSeq(Segments[5], DashAt + 1, Len(Segments[5]))

\* /archives/<ID> and nothing after it
ChannelForm ==
    /\ HasPath
    /\ Len(Segments) = 2
    /\ toLowerCase(Segments[1]) = kwArchives
    /\ IsId(Segments[2])

\* /archives/<ID>/ : the same with one trailing slash
ChannelSlashForm ==
    /\ HasPath
    /\ Len(Segments) = 3
    /\ toLowerCase(Segments[1]) = kwArchives
    /\ IsId(Segments[2])
    /\ Segments[3] = <<>>

\* the rule of the timestamp conversion: a run of exactly 16 characters gets
\* a dot after its 10th, any other text is kept
Normalised(run) ==
    IF Len(run) = 16
    THEN SubSeq(run, 1, 10) \o <<".">> \o SubSeq(run, 11, 16)
    ELSE run

\* the input string without its query and fragment
WithoutQuery == SubSeq(url, 1, FirstIn(url, 1, {"?", "#"}) - 1)

Resolved == info.kind # "pending"

Gated == gate # "pending"

\* the value of the thread_ts query parameter, Undefined when there is none
ThreadParam == searchParamsGet(parsedUrl, nameThreadTs)

----------------------------------------------------------------------------
(* Properties of the resolver and of the gate.                             *)

\* C1: on every input string both functions return without throwing:
\* isSlackUrl gives a boolean and parseSlackUrl a SlackUrlInfo or null; a
\* string that is not a URL gives false and null; a URL whose path has none
\* of the known shapes gives null.
C1_TotalOnEveryInput ==
    /\ gate \in {"pending", "true", "false"}
    /\ info.kind \in {"pending", "info", "null"}
    /\ ~parsedUrl.ok =>
          /\ Gated => gate = "false"
          /\ Resolved => info = Null
    /\ ( /\ Resolved
         /\ parsedUrl.ok
         /\ ~ArchiveForm
         /\ ~ClientForm
         /\ ~ChannelForm
         /\ ~ChannelSlashForm ) => info = Null

\* a non-empty string that is not a URL, rejected by both functions
C1_Witness ==
    /\ Len(url) > 0
    /\ ~parsedUrl.ok
    /\ gate = "false"
    /\ info = Null

HostLabels == split(parsedUrl.hostname, ".")

\* the last two labels of the host are slack and com
IsSlackHost ==
    /\ Len(HostLabels) >= 2
    /\ HostLabels[Len(HostLabels) - 1] = <<"s", "l", "a", "c", "k">>
    /\ HostLabels[Len(HostLabels)] = <<"c", "o", "m">>

\* C2: for every string that parses as a URL, isSlackUrl is true exactly
\* when the host is slack.com or a (possibly nested) subdomain of it,
\* whatever the scheme, the path and the query.
C2_GateIffSlackHost ==
    (Gated /\ parsedUrl.ok) => (gate = "true" <=> IsSlackHost)

\* a nested tenant subdomain accepted by the gate
C2_Witness ==
    /\ parsedUrl.ok
    /\ parsedUrl.hostname = hNested
    /\ gate = "true"

\* C3: for an archive-message path, channelId is the ID segment, messageTs
\* the normalised digit run, and threadTs the thread_ts parameter verbatim
\* when it is present and non-empty, messageTs otherwise; messageTs is the
\* same under every query string.
C3_ArchiveFields ==
    (Resolved /\ ArchiveForm) =>
        /\ info.kind = "info"
        /\ info.channelId = Segments[2]
        /\ info.messageTs = Normalised(ArchiveDigits)
        /\ info.threadTs =
              IF ThreadParam # Undefined /\ ThreadParam # <<>>
              THEN ThreadParam ELSE info.messageTs
        /\ \A q \in Queries :
              parseSlackUrl(WithoutQuery \o q).messageTs = info.messageTs

\* an archive-message link whose thread_ts differs from its own timestamp
C3_Witness ==
    /\ Resolved
    /\ ArchiveForm
    /\ ThreadParam # Undefined
    /\ ThreadParam # <<>>
    /\ info.threadTs = ThreadParam
    /\ info.threadTs # info.messageTs

\* C4, as stated: messageTs is empty or canonical (10 digits, a dot, 6 digits).
C4_MessageTsAlwaysCanonical ==
    info.kind = "info" =>
        info.messageTs = <<>> \/ IsCanonicalTs(info.messageTs)

\* C4, amended: messageTs is canonical when the digit run of an archive
\* path has exactly 16 digits and is that run unchanged when it has another
\* length; it is the trailing timestamp of a client-thread path unchanged;
\* it is empty otherwise; it is never a 16-digit run.
C4_MessageTsNormalised ==
    info.kind = "info" =>
        /\ (ArchiveForm /\ Len(ArchiveDigits) = 16) =>
              IsCanonicalTs(info.messageTs)
        /\ (ArchiveForm /\ Len(ArchiveDigits) # 16) =>
              info.messageTs = ArchiveDigits
        /\ ClientForm => info.messageTs = ClientTs
        /\ (~ArchiveForm /\ ~ClientForm) => info.messageTs = <<>>
        /\ ~(IsDigitRun(info.messageTs) /\ Len(info.messageTs) = 16)

\* a 16-digit run resolved to the canonical form
C4_Witness ==
    /\ info.kind = "info"
    /\ ArchiveForm
    /\ Len(ArchiveDigits) = 16
    /\ IsCanonicalTs(info.messageTs)

\* C5, as stated: threadTs, when present, is a canonical timestamp.
C5_ThreadTsAlwaysCanonical ==
    (info.kind = "info" /\ info.threadTs # Undefined) =>
        IsCanonicalTs(info.threadTs)

\* C5, amended: threadTs, when present, is non-empty and is the thread_ts
\* parameter verbatim (an archive-message link with a non-empty thread_ts)
\* or equal to messageTs (every other link that has a message).
C5_ThreadTsSource ==
    (info.kind = "info" /\ info.threadTs # Undefined) =>
        /\ info.threadTs # <<>>
        /\ info.threadTs =
              IF ArchiveForm /\ ThreadParam # Undefined /\ ThreadParam # <<>>
              THEN ThreadParam ELSE info.messageTs

\* a default thread: no thread_ts, threadTs is the canonical messageTs
C5_Witness ==
    /\ info.kind = "info"
    /\ ArchiveForm
    /\ ThreadParam = Undefined
    /\ info.threadTs = info.messageTs
    /\ IsCanonicalTs(info.threadTs)

\* C6: threadTs is absent exactly when messageTs is empty, which is exactly
\* for bare-channel links; archive-message and client-thread results carry
\* a non-empty threadTs.
C6_ThreadAbsentIffBareChannel ==
    info.kind = "info" =>
        /\ info.threadTs = Undefined <=> info.messageTs = <<>>
        /\ info.threadTs = Undefined <=> (ChannelForm \/ ChannelSlashForm)
        /\ (ArchiveForm \/ ClientForm) =>
              info.threadTs # Undefined /\ info.threadTs # <<>>

\* a bare-channel link resolved without a thread although the URL carries a
\* thread_ts parameter
C6_Witness ==
    /\ info.kind = "info"
    /\ ChannelForm
    /\ ThreadParam # Undefined
    /\ info.threadTs = Undefined
    /\ info.messageTs = <<>>

\* C7: for a client-thread path, channelId is the second segment after
\* client (not the team, not the prefix of the last segment), and messageTs
\* and threadTs are both the trailing timestamp unchanged.
C7_ClientFields ==
    (Resolved /\ ClientForm) =>
        /\ info.kind = "info"
        /\ info.channelId = Segments[3]
        /\ info.messageTs = ClientTs
        /\ info.threadTs = ClientTs

\* a client-thread link whose team, channel and last-segment prefix differ
C7_Witness ==
    /\ Resolved
    /\ ClientForm
    /\ Segments[2] # Segments[3]
    /\ SubSeq(Segments[5], 1, DashAt - 1) # Segments[3]
    /\ info.channelId = Segments[3]
    /\ info.messageTs = ClientTs

\* the bare-channel result: no message, no thread
IsBareResult ==
    /\ info.kind = "info"
    /\ info.messageTs = <<>>
    /\ info.threadTs = Undefined

\* C8, as stated: the result is the bare-channel result exactly when the
\* path is /archives/<ID> with nothing after the ID.
C8_BareIffExactPath ==
    Resolved => (IsBareResult <=> ChannelForm)

\* C8, amended: the result is the bare-channel result, with channelId the
\* ID segment, exactly when the path is /archives/<ID> or /archives/<ID>/
\* (one optional trailing slash).
C8_BareIffOptionalSlash ==
    Resolved =>
        /\ IsBareResult <=> (ChannelForm \/ ChannelSlashForm)
        /\ IsBareResult => info.channelId = Segments[2]

\* /archives/<ID>/ resolved as a bare channel
C8_Witness ==
    /\ Resolved
    /\ ChannelSlashForm
    /\ IsBareResult
    /\ info.channelId = Segments[2]

Shapes == {ShapeOrder[i] : i \in DOMAIN ShapeOrder}

\* every order in which the three shapes can be tried
Orders ==
    {o \in [DOMAIN ShapeOrder -> Shapes] :
        \A i, j \in DOMAIN ShapeOrder : o[i] = o[j] => i = j}

\* the shapes whose pattern matches the path of the input
MatchingShapes == {sh \in Shapes : shapeMatches(sh, parsedUrl)}

\* C9: no path matches more than one of the three patterns, and trying the
\* patterns in any other order gives the result the code gives.
C9_ShapesExclusive ==
    /\ parsedUrl.ok => Cardinality(MatchingShapes) <= 1
    /\ Resolved =>
          \A o \in Orders :
              LET r == resolveInOrder(url, o)
              IN  (IF r.kind = "throw" THEN Null ELSE r) = info

\* a path matched only by the pattern the code tries last
C9_Witness ==
    /\ Resolved
    /\ info.kind = "info"
    /\ parsedUrl.ok
    /\ MatchingShapes = {"channel"}

\* the text of the host before its first dot
FirstLabel ==
    SubSeq(parsedUrl.hostname, 1, FirstIn(parsedUrl.hostname, 1, {"."}) - 1)

\* C10: in every result, of any shape, workspace is absent when the first
\* label of the host is app and is that first label otherwise.
C10_Workspace ==
    info.kind = "info" =>
        info.workspace = IF FirstLabel = kwApp THEN Undefined ELSE FirstLabel

\* a client-thread link on the app host, resolved without a workspace
C10_Witness ==
    /\ info.kind = "info"
    /\ ClientForm
    /\ FirstLabel = kwApp
    /\ info.workspace = Undefined

\* the argument of the conversion without one leading p
TsRemainder == IF Len(tsIn) > 0 /\ tsIn[1] = "p" THEN Tail(tsIn) ELSE tsIn

toUpperChar(c) ==
    IF \E i \in DOMAIN LowerCase : LowerCase[i] = c
    THEN UpperCase[CHOOSE i \in DOMAIN LowerCase : LowerCase[i] = c]
    ELSE c

\* the positions of the input's letters that belong to a path keyword
\* (a whole segment spelling archives, client or thread in any case)
KeywordPositions ==
    {i \in 1..Len(url) :
        \E kw \in {kwArchives, kwClient, kwThread} :
            \E start \in 2..i :
                /\ i < start + Len(kw)
                /\ start + Len(kw) - 1 <= Len(url)
                /\ url[start - 1] = "/"
                /\ toLowerCase(SubSeq(url, start, start + Len(kw) - 1)) = kw
                /\ \/ start + Len(kw) - 1 = Len(url)
                   \/ url[start + Len(kw)] \in {"/", "?", "#"}}

\* the positions of a p or P that opens a segment and is followed by a digit
PrefixPositions ==
    {i \in 2..(Len(url) - 1) :
        /\ url[i - 1] = "/"
        /\ url[i] \in {"p", "P"}
        /\ url[i + 1] \in Digit}

\* the input with the letters at the given positions folded by f
Recased(positions, f(_)) ==
    [i \in 1..Len(url) |-> IF i \in positions THEN f(url[i]) ELSE url[i]]

\* the inputs that differ from url only in the case of keywords or of p
CaseVariants ==
    {Recased(ps, toUpperChar) : ps \in {KeywordPositions, PrefixPositions,
                                        KeywordPositions \cup PrefixPositions}}
    \cup
    {Recased(ps, toLowerChar) : ps \in {KeywordPositions, PrefixPositions,
                                        KeywordPositions \cup PrefixPositions}}

\* t occurs in s as a contiguous run of characters
IsSubstring(t, s) ==
    \E i \in 1..(Len(s) - Len(t) + 1) : SubSeq(s, i, i + Len(t) - 1) = t

\* C12: matching is case-insensitive on the keywords archives, client and
\* thread and on the p prefix: every input that differs from url only in
\* the letter case of those resolves to the same result as url; and the
\* channelId of a resolved link is a run of characters of the input itself,
\* letter case included.
C12_KeywordCaseIgnored ==
    Resolved =>
        /\ \A v \in CaseVariants : parseSlackUrl(v) = info
        /\ info.kind = "info" =>
              /\ Len(info.channelId) > 0
              /\ IsSubstring(<<"/">> \o info.channelId, url)

\* an upper-case keyword and prefix around a lower-case channel ID
C12_Witness ==
    /\ url = sHttps \o hAcme \o Slash \o kwArchivesUpper \o Slash \o idLower
                \o <<"/", "P">> \o tsCompact
    /\ info.kind = "info"
    /\ info.channelId = idLower
    /\ info.messageTs = tsCanonical
    /\ Cardinality(CaseVariants) > 1

----------------------------------------------------------------------------
(* The tool servers.  Four files serve the same tools: src/index.ts (plain), *)
(* part_000 dispatching to src/slack.ts (refactored), part_001 (verbose) and *)
(* the opencontrol tools appended to slack-url-parser.ts (opencontrol).      *)
(* Texts are sequences of characters, as everywhere in this module.          *)

\* the tool names of the switch
toolReadSlackThread ==
    <<"r", "e", "a", "d", "_", "s", "l", "a", "c", "k", "_", "t", "h", "r",
      "e", "a", "d">>

toolGetChannelInfo ==
    <<"g", "e", "t", "_", "c", "h", "a", "n", "n", "e", "l", "_", "i", "n",
      "f", "o">>

toolParseSlackUrl ==
    <<"p", "a", "r", "s", "e", "_", "s", "l", "a", "c", "k", "_", "u", "r",
      "l">>

\* a name no case of the switch carries
toolOther ==
    <<"l", "i", "s", "t", "_", "u", "s", "e", "r", "s">>

\* the error texts of index.ts, part_000 and slack.ts
ErrorTexts ==
    [prefix |->
       <<"E", "r", "r", "o", "r", ":", " ">>,
     invalidSlackUrl |->
       <<"I", "n", "v", "a", "l", "i", "d", " ", "S", "l", "a", "c", "k", " ",
         "U", "R", "L">>,
     couldNotParseSlackUrl |->
       <<"C", "o", "u", "l", "d", " ", "n", "o", "t", " ", "p", "a", "r", "s",
         "e", " ", "S", "l", "a", "c", "k", " ", "U", "R", "L">>,
     couldNotParseUrl |->
       <<"C", "o", "u", "l", "d", " ", "n", "o", "t", " ", "p", "a", "r", "s",
         "e", " ", "U", "R", "L">>,
     unknownError |->
       <<"U", "n", "k", "n", "o", "w", "n", " ", "e", "r", "r", "o", "r">>,
     messageNotFound |->
       <<"M", "e", "s", "s", "a", "g", "e", " ", "n", "o", "t", " ", "f", "o",
         "u", "n", "d">>,
     unknownTool |->
       <<"U", "n", "k", "n", "o", "w", "n", " ", "t", "o", "o", "l", ":", " ">>]

\* the texts only part_001 has
VerboseTexts ==
    [errorQuote |->
       <<"E", "r", "r", "o", "r", ":", " ", "\"">>,
     notValidSlackUrl |->
       <<"\"", " ", "d", "o", "e", "s", " ", "n", "o", "t", " ", "a", "p", "p",
         "e", "a", "r", " ", "t", "o", " ", "b", "e", " ", "a", " ", "v", "a",
         "l", "i", "d", " ", "S", "l", "a", "c", "k", " ", "U", "R", "L">>,
     supportedFormats |->
       <<".", " ", "S", "u", "p", "p", "o", "r", "t", "e", "d", " ", "f", "o",
         "r", "m", "a", "t", "s", ":", "\n", "-", " ", "h", "t", "t", "p", "s",
         ":", "/", "/", "w", "o", "r", "k", "s", "p", "a", "c", "e", ".", "s",
         "l", "a", "c", "k", ".", "c", "o", "m", "/", "a", "r", "c", "h", "i",
         "v", "e", "s", "/", "C", "H", "A", "N", "N", "E", "L", "_", "I", "D",
         "/", "p", "T", "I", "M", "E", "S", "T", "A", "M", "P", "\n", "-", " ",
         "h", "t", "t", "p", "s", ":", "/", "/", "w", "o", "r", "k", "s", "p",
         "a", "c", "e", ".", "s", "l", "a", "c", "k", ".", "c", "o", "m", "/",
         "a", "r", "c", "h", "i", "v", "e", "s", "/", "C", "H", "A", "N", "N",
         "E", "L", "_", "I", "D", "/", "p", "T", "I", "M", "E", "S", "T", "A",
         "M", "P", "?", "t", "h", "r", "e", "a", "d", "_", "t", "s", "=", ".",
         ".", ".">>,
     format |->
       <<" ", "f", "o", "r", "m", "a", "t">>,
     fetchingThread |->
       <<"E", "r", "r", "o", "r", " ", "f", "e", "t", "c", "h", "i", "n", "g",
         " ", "t", "h", "r", "e", "a", "d", ":", " ">>,
     fetchingMessage |->
       <<"E", "r", "r", "o", "r", " ", "f", "e", "t", "c", "h", "i", "n", "g",
         " ", "m", "e", "s", "s", "a", "g", "e", ":", " ">>,
     fetchingChannel |->
       <<"E", "r", "r", "o", "r", " ", "f", "e", "t", "c", "h", "i", "n", "g",
         " ", "c", "h", "a", "n", "n", "e", "l", " ", "i", "n", "f", "o", ":",
         " ">>,
     repliesHint |->
       <<" ", "r", "e", "p", "l", "i", "e", "s", ".", " ", "T", "o", " ", "r",
         "e", "a", "d", " ", "t", "h", "e", " ", "f", "u", "l", "l", " ", "t",
         "h", "r", "e", "a", "d", ",", " ", "t", "h", "e", " ", "U", "R", "L",
         " ", "s", "h", "o", "u", "l", "d", " ", "i", "n", "c", "l", "u", "d",
         "e", " ", "t", "h", "e", " ", "t", "h", "r", "e", "a", "d", "_", "t",
         "s", " ", "p", "a", "r", "a", "m", "e", "t", "e", "r", ".", ")">>]

\* the pieces of the rendered thread and of the rendered single message
ThreadTexts ==
    [threadHeader |->
       <<"#", " ", "S", "l", "a", "c", "k", " ", "T", "h", "r", "e", "a", "d",
         " ", "(">>,
     messages |->
       <<" ", "m", "e", "s", "s", "a", "g", "e", "s", ")">>,
     channel |->
       <<"C", "h", "a", "n", "n", "e", "l", ":", " ">>,
     thread |->
       <<"T", "h", "r", "e", "a", "d", ":", " ">>,
     rule |->
       <<"-", "-", "-">>,
     messageHeader |->
       <<"#", " ", "S", "l", "a", "c", "k", " ", "M", "e", "s", "s", "a", "g",
         "e", "\n", "C", "h", "a", "n", "n", "e", "l", ":", " ">>,
     messageRule |->
       <<"\n", "\n", "-", "-", "-", "\n", "\n">>,
     hasReplies |->
       <<"\n", "(", "T", "h", "i", "s", " ", "m", "e", "s", "s", "a", "g", "e",
         " ", "h", "a", "s", " ">>,
     replies |->
       <<" ", "r", "e", "p", "l", "i", "e", "s", ")">>]

\* the pieces of a formatted message
MessageTexts ==
    [unknown |->
       <<"u", "n", "k", "n", "o", "w", "n">>,
     noText |->
       <<"(", "n", "o", " ", "t", "e", "x", "t", ")">>,
     bold |->
       <<"*", "*">>,
     boldOpen |->
       <<"*", "*", " ", "(">>,
     closeColon |->
       <<")", ":", "\n">>,
     reactions |->
       <<"R", "e", "a", "c", "t", "i", "o", "n", "s", ":", " ">>,
     colonOpen |->
       <<":", " ", "(">>]

\* the pieces of the rendered channel
ChannelTexts ==
    [header |->
       <<"#", " ", "C", "h", "a", "n", "n", "e", "l", ":", " ", "#">>,
     id |->
       <<"*", "*", "I", "D", ":", "*", "*", " ">>,
     private |->
       <<"*", "*", "P", "r", "i", "v", "a", "t", "e", ":", "*", "*", " ">>,
     archived |->
       <<"*", "*", "A", "r", "c", "h", "i", "v", "e", "d", ":", "*", "*", " ">>,
     members |->
       <<"*", "*", "M", "e", "m", "b", "e", "r", "s", ":", "*", "*", " ">>,
     topic |->
       <<"*", "*", "T", "o", "p", "i", "c", ":", "*", "*", " ">>,
     purpose |->
       <<"*", "*", "P", "u", "r", "p", "o", "s", "e", ":", "*", "*", " ">>,
     created |->
       <<"*", "*", "C", "r", "e", "a", "t", "e", "d", ":", "*", "*", " ">>,
     yes |->
       <<"Y", "e", "s">>,
     no |->
       <<"N", "o">>,
     unknownMembers |->
       <<"U", "n", "k", "n", "o", "w", "n">>,
     noTopic |->
       <<"(", "n", "o", " ", "t", "o", "p", "i", "c", ")">>,
     noPurpose |->
       <<"(", "n", "o", " ", "p", "u", "r", "p", "o", "s", "e", ")">>]

\* the property names of SlackUrlInfo
InfoKeys ==
    [workspace |->
       <<"w", "o", "r", "k", "s", "p", "a", "c", "e">>,
     channelId |->
       <<"c", "h", "a", "n", "n", "e", "l", "I", "d">>,
     messageTs |->
       <<"m", "e", "s", "s", "a", "g", "e", "T", "s">>,
     threadTs |->
       <<"t", "h", "r", "e", "a", "d", "T", "s">>]

----------------------------------------------------------------------------
(* JavaScript values and conversions used by the handlers.  An optional    *)
(* string that is absent is Undefined; an optional number that is absent   *)
(* is 0 and an absent array is <<>>, which every use in the handlers       *)
(* treats as it treats the absent value (all three are falsy or empty).    *)

\* a string used as a condition: undefined and "" are falsy
Truthy(s) == s # Undefined /\ s # <<>>

\* a || b on strings
OrElse(a, b) == IF Truthy(a) THEN a ELSE b

DigitChars == <<"0", "1", "2", "3", "4", "5", "6", "7", "8", "9">>

\* String(n) for a non-negative integer
RECURSIVE decimal(_)
decimal(n) ==
    IF n < 10 THEN <<DigitChars[n + 1]>>
    ELSE decimal(n \div 10) \o <<DigitChars[(n % 10) + 1]>>

\* the digits of n, zero-padded to the given width (String.padStart)
padStart(n, width) ==
    LET d == decimal(n)
    IN  [i \in 1..(width - Len(d)) |-> "0"] \o d

digitValue(c) == CHOOSE v \in 0..9 : DigitChars[v + 1] = c

\* the number spelt by a run of digits
RECURSIVE digitsValue(_)
digitsValue(ds) ==
    IF Len(ds) = 0 THEN 0
    ELSE 10 * digitsValue(SubSeq(ds, 1, Len(ds) - 1)) + digitValue(ds[Len(ds)])

\* parseFloat(ts) * 1000 handed to new Date: whole seconds and the
\* milliseconds left after the Date constructor drops the fraction of a
\* millisecond.  The timestamps of the model have a fraction of a
\* millisecond well away from 0, so that floating-point rounding of the
\* product cannot change the millisecond.
epochOf(ts) ==
    LET intEnd == RunEnd(ts, 1, Digit)
        fracEnd == IF intEnd <= Len(ts) /\ ts[intEnd] = "."
                   THEN RunEnd(ts, intEnd + 1, Digit) ELSE intEnd
        frac == SubSeq(ts, intEnd + 1, fracEnd - 1)
        padded == frac \o <<"0", "0", "0">>
    IN  [seconds |-> digitsValue(SubSeq(ts, 1, intEnd - 1)),
         millis |-> digitsValue(SubSeq(padded, 1, 3))]

\* Date.prototype.toISOString for a time at or after the epoch, by the
\* days-to-civil-date conversion of the proleptic Gregorian calendar
toISOString(seconds, millis) ==
    LET days == seconds \div 86400
        secs == seconds % 86400
        z == days + 719468
        era == z \div 146097
        doe == z - era * 146097
        yoe == (doe - doe \div 1460 + doe \div 36524 - doe \div 146096) \div 365
        doy == doe - (365 * yoe + yoe \div 4 - yoe \div 100)
        mp == (5 * doy + 2) \div 153
        day == doy - (153 * mp + 2) \div 5 + 1
        month == IF mp < 10 THEN mp + 3 ELSE mp - 9
        year == yoe + era * 400 + (IF month <= 2 THEN 1 ELSE 0)
    IN  padStart(year, 4) \o <<"-">> \o padStart(month, 2) \o <<"-">>
        \o padStart(day, 2) \o <<"T">> \o padStart(secs \div 3600, 2)
        \o <<":">> \o padStart((secs % 3600) \div 60, 2) \o <<":">>
        \o padStart(secs % 60, 2) \o <<".">> \o padStart(millis, 3)
        \o <<"Z">>

\* JSON.stringify of a string: quoted, with quote and backslash escaped
RECURSIVE jsonEscape(_)
jsonEscape(str) ==
    IF Len(str) = 0 THEN <<>>
    ELSE (IF Head(str) \in {"\"", "\\"} THEN <<"\\", Head(str)>>
          ELSE <<Head(str)>>) \o jsonEscape(Tail(str))

jsonQuote(str) == <<"\"">> \o jsonEscape(str) \o <<"\"">>

\* lines.join(sep) for a separator of several characters
RECURSIVE joinWith(_, _)
joinWith(parts, sep) ==
    IF Len(parts) = 0 THEN <<>>
    ELSE IF Len(parts) = 1 THEN parts[1]
    ELSE parts[1] \o sep \o joinWith(Tail(parts), sep)

\* array.filter(Boolean) on an array of strings
RECURSIVE filterBoolean(_)
filterBoolean(lines) ==
    IF Len(lines) = 0 THEN <<>>
    ELSE (IF Len(Head(lines)) > 0 THEN <<Head(lines)>> ELSE <<>>)
         \o filterBoolean(Tail(lines))

\* the Slack data of the model: user ids, names, texts, timestamps
userU1 ==
    <<"U", "1">>

userU2 ==
    <<"U", "2">>

nameAlice ==
    <<"A", "l", "i", "c", "e", " ", "A", "d", "a", "m", "s">>

nameBob ==
    <<"b", "o", "b">>

textHello ==
    <<"h", "e", "l", "l", "o">>

textAgain ==
    <<"a", "g", "a", "i", "n">>

textDeploy ==
    <<"d", "e", "p", "l", "o", "y", " ", "d", "o", "n", "e">>

tsReply ==
    <<"1", "6", "0", "9", "4", "5", "9", "2", "6", "0", ".", "5", "0", "0",
      "4", "0", "0">>

reactionTada ==
    <<"t", "a", "d", "a">>

reactionEyes ==
    <<"e", "y", "e", "s">>

channelGeneral ==
    <<"g", "e", "n", "e", "r", "a", "l">>

topicDaily ==
    <<"D", "a", "i", "l", "y", " ", "c", "h", "a", "t">>

purposeTeam ==
    <<"T", "e", "a", "m", " ", "t", "a", "l", "k">>

errChannelNotFound ==
    <<"c", "h", "a", "n", "n", "e", "l", "_", "n", "o", "t", "_", "f", "o",
      "u", "n", "d">>

\* the message of the ZodError of a missing required string (zod's text)
errValidation == <<"R", "e", "q", "u", "i", "r", "e", "d">>

\* the message of the Error a rejected API call carries
errRateLimited ==
    <<"A", "n", " ", "A", "P", "I", " ", "e", "r", "r", "o", "r", " ", "o",
      "c", "c", "u", "r", "r", "e", "d", ":", " ", "r", "a", "t", "e", "l",
      "i", "m", "i", "t", "e", "d">>

----------------------------------------------------------------------------
(* Results, API calls and the rendering of messages and channels.          *)

\* { content: [{ type: "text", text }], isError } returned by a handler
ToolResult(text, isError) ==
    [kind |-> "result", isError |-> isError, text |-> text, value |-> Null]

\* a string returned by the run function of an opencontrol tool
Returned(text) ==
    [kind |-> "returned", isError |-> FALSE, text |-> text, value |-> Null]

\* the urlInfo object returned by the run function of the opencontrol tool
ReturnedObject(value) ==
    [kind |-> "object", isError |-> FALSE, text |-> <<>>, value |-> value]

\* throw new Error(message) leaving the run function of an opencontrol tool
Threw(message) ==
    [kind |-> "thrown", isError |-> TRUE, text |-> message, value |-> Null]

\* the handler has not returned
NoResult ==
    [kind |-> "pending", isError |-> FALSE, text |-> <<>>, value |-> Null]

\* slack.conversations.replies({ channel, ts, limit })
RepliesCall(channel, ts, limit) ==
    [method |-> "conversations.replies", channel |-> channel, ts |-> ts,
     limit |-> limit]

\* slack.conversations.history({ channel, latest, inclusive, limit })
HistoryCall(channel, latest, inclusive, limit) ==
    [method |-> "conversations.history", channel |-> channel,
     latest |-> latest, inclusive |-> inclusive, limit |-> limit]

\* slack.users.info({ user })
UsersInfoCall(user) == [method |-> "users.info", user |-> user]

\* slack.conversations.info({ channel })
ConversationsInfoCall(channel) ==
    [method |-> "conversations.info", channel |-> channel]

\* the timestamp of formatMessage
messageTimestamp(msg) ==
    IF Truthy(msg.ts)
    THEN toISOString(epochOf(msg.ts).seconds, epochOf(msg.ts).millis)
    ELSE <<>>

\* msg.reactions.map(...).join(" ")
reactionStr(reactions) ==
    joinWith([i \in DOMAIN reactions |->
                <<":">> \o reactions[i].name \o MessageTexts.colonOpen
                \o decimal(reactions[i].count) \o <<")">>],
             <<" ">>)

\* the string formatMessage returns once userName is settled
formatted(msg, includeReactions, userName) ==
    MessageTexts.bold \o userName \o MessageTexts.boldOpen \o messageTimestamp(msg)
    \o MessageTexts.closeColon \o OrElse(msg.text, MessageTexts.noText) \o <<"\n">>
    \o (IF includeReactions /\ Len(msg.reactions) > 0
        THEN MessageTexts.reactions \o reactionStr(msg.reactions) \o <<"\n">>
        ELSE <<>>)

\* the output of the thread branch with the formatted messages last first
threadOutputReversed(ui, messages, formattedMessages) ==
    joinWith(<<ThreadTexts.threadHeader \o decimal(Len(messages)) \o ThreadTexts.messages,
               ThreadTexts.channel \o ui.channelId,
               ThreadTexts.thread \o ui.threadTs,
               <<>>, ThreadTexts.rule, <<>>>>
             \o [k \in DOMAIN formattedMessages |->
                    formattedMessages[Len(formattedMessages) + 1 - k]],
             <<"\n">>)

\* the output of the thread branch
threadOutput(ui, messages, formattedMessages) ==
    joinWith(<<ThreadTexts.threadHeader \o decimal(Len(messages)) \o ThreadTexts.messages,
               ThreadTexts.channel \o ui.channelId,
               ThreadTexts.thread \o ui.threadTs,
               <<>>, ThreadTexts.rule, <<>>>> \o formattedMessages,
             <<"\n">>)

\* the note on replies the verbose server appends
repliesNoteVerbose(msg) ==
    IF Truthy(msg.thread_ts) /\ msg.reply_count > 0
    THEN ThreadTexts.hasReplies \o decimal(msg.reply_count) \o VerboseTexts.repliesHint
    ELSE <<>>

\* the note on replies of the single-message branch
repliesNote(msg) ==
    IF Truthy(msg.thread_ts) /\ msg.reply_count > 0
    THEN ThreadTexts.hasReplies \o decimal(msg.reply_count) \o ThreadTexts.replies
    ELSE <<>>

\* the output of the single-message branch, before the note on replies
messageOutput(ui, formattedMessage) ==
    ThreadTexts.messageHeader \o ui.channelId \o ThreadTexts.messageRule \o formattedMessage

\* the output of get_channel_info
channelOutput(channelId, channel) ==
    joinWith(filterBoolean(
        <<ChannelTexts.header \o OrElse(channel.name, channelId),
          <<>>,
          ChannelTexts.id \o channelId,
          ChannelTexts.private \o (IF channel.is_private THEN ChannelTexts.yes ELSE ChannelTexts.no),
          ChannelTexts.archived \o (IF channel.is_archived THEN ChannelTexts.yes ELSE ChannelTexts.no),
          ChannelTexts.members \o (IF channel.num_members # 0
                         THEN decimal(channel.num_members)
                         ELSE ChannelTexts.unknownMembers),
          <<>>,
          ChannelTexts.topic \o OrElse(channel.topic, ChannelTexts.noTopic),
          <<>>,
          ChannelTexts.purpose \o OrElse(channel.purpose, ChannelTexts.noPurpose),
          <<>>,
          IF channel.created # 0
          THEN ChannelTexts.created \o toISOString(channel.created, 0)
          ELSE <<>>>>),
        <<"\n">>)

\* one property line of JSON.stringify(value, null, 2)
jsonProperty(key, value) ==
    <<" ", " ">> \o jsonQuote(key) \o <<":", " ">> \o jsonQuote(value)

\* JSON.stringify(urlInfo, null, 2) keeping properties that are undefined,
\* printed as the text undefined
jsonStringifyKeepingUndefined(ui) ==
    <<"{", "\n">>
    \o joinWith(<<jsonProperty(InfoKeys.workspace, ui.workspace),
                  jsonProperty(InfoKeys.channelId, ui.channelId),
                  jsonProperty(InfoKeys.messageTs, ui.messageTs),
                  jsonProperty(InfoKeys.threadTs, ui.threadTs)>>, <<",", "\n">>)
    \o <<"\n", "}">>

\* JSON.stringify(urlInfo, null, 2): the properties in the order of the
\* object literal, those whose value is undefined left out
jsonStringify(ui) ==
    <<"{", "\n">>
    \o joinWith(
        (IF ui.workspace # Undefined
         THEN <<jsonProperty(InfoKeys.workspace, ui.workspace)>> ELSE <<>>)
        \o <<jsonProperty(InfoKeys.channelId, ui.channelId),
             jsonProperty(InfoKeys.messageTs, ui.messageTs)>>
        \o (IF ui.threadTs # Undefined
            THEN <<jsonProperty(InfoKeys.threadTs, ui.threadTs)>> ELSE <<>>),
        <<",", "\n">>)
    \o <<"\n", "}">>

----------------------------------------------------------------------------
(* The handlers, by server.  A handler fails at one of these sites: the    *)
(* gate ("gate"), the resolution ("unparsed"), a response that is not ok   *)
(* ("replies", "history", "channel"), a rejected API call ("rejected") or  *)
(* the validation of the arguments ("schema").                             *)

Variants == {"plain", "refactored", "verbose", "opencontrol"}

\* the default of limit in ReadThreadSchema and in readSlackThread
DefaultLimit == 100

\* the message of the Error thrown by slack.ts and by the opencontrol tools
thrownMessage(tool, site, detail) ==
    CASE site = "gate" -> ErrorTexts.invalidSlackUrl
      [] site = "unparsed" ->
            IF tool = toolReadSlackThread THEN ErrorTexts.couldNotParseSlackUrl
            ELSE ErrorTexts.couldNotParseUrl
      [] OTHER -> detail

\* the error text of index.ts
plainErrorText(tool, site, u, detail) ==
    CASE site = "gate" -> ErrorTexts.prefix \o ErrorTexts.invalidSlackUrl
      [] site = "unparsed" ->
            IF tool = toolReadSlackThread
            THEN ErrorTexts.prefix \o ErrorTexts.couldNotParseSlackUrl
            ELSE ErrorTexts.prefix \o ErrorTexts.couldNotParseUrl
      [] OTHER -> ErrorTexts.prefix \o detail

\* part_000 with the unparsed text of readSlackThread in parse_slack_url
refactoredErrorTextSlackUrl(tool, site, u, detail) ==
    IF tool = toolParseSlackUrl /\ site = "unparsed"
    THEN ErrorTexts.prefix \o ErrorTexts.couldNotParseSlackUrl
    ELSE ErrorTexts.prefix \o thrownMessage(tool, site, detail)

\* the error text of part_000: its own texts for parse_slack_url, and
\* the catch block around readSlackThread and getChannelInfo
refactoredErrorText(tool, site, u, detail) ==
    IF tool = toolParseSlackUrl /\ site = "gate"
    THEN ErrorTexts.prefix \o ErrorTexts.invalidSlackUrl
    ELSE IF tool = toolParseSlackUrl /\ site = "unparsed"
    THEN ErrorTexts.prefix \o ErrorTexts.couldNotParseUrl
    ELSE ErrorTexts.prefix \o thrownMessage(tool, site, detail)

\* the error text of part_001
verboseErrorText(tool, site, u, detail) ==
    CASE site = "gate" -> VerboseTexts.errorQuote \o u \o VerboseTexts.notValidSlackUrl
      [] site = "unparsed" ->
            IF tool = toolReadSlackThread
            THEN ErrorTexts.prefix \o ErrorTexts.couldNotParseSlackUrl
                    \o VerboseTexts.supportedFormats
            ELSE ErrorTexts.prefix \o ErrorTexts.couldNotParseSlackUrl \o VerboseTexts.format
      [] site = "replies" -> VerboseTexts.fetchingThread \o detail
      [] site = "history" -> VerboseTexts.fetchingMessage \o detail
      [] site = "channel" -> VerboseTexts.fetchingChannel \o detail
      [] OTHER -> ErrorTexts.prefix \o detail

\* failure with no catch block around the switch: what is thrown inside
\* the handler leaves it
failureUncaught(v, tool, site, u, detail) ==
    IF \/ site \in {"schema", "rejected"}
       \/ v = "opencontrol"
       \/ (v = "refactored" /\ tool # toolParseSlackUrl)
    THEN Threw(thrownMessage(tool, site, detail))
    ELSE IF v = "plain"
    THEN ToolResult(plainErrorText(tool, site, u, detail), TRUE)
    ELSE IF v = "refactored"
    THEN ToolResult(refactoredErrorText(tool, site, u, detail), TRUE)
    ELSE ToolResult(verboseErrorText(tool, site, u, detail), TRUE)

\* what a handler of server v returns or throws on a failure
failure(v, tool, site, u, detail) ==
    CASE v = "plain" -> ToolResult(plainErrorText(tool, site, u, detail), TRUE)
      [] v = "refactored" ->
            ToolResult(refactoredErrorText(tool, site, u, detail), TRUE)
      [] v = "verbose" ->
            ToolResult(verboseErrorText(tool, site, u, detail), TRUE)
      [] v = "opencontrol" -> Threw(thrownMessage(tool, site, detail))

\* what a handler of server v returns with the text of a success
success(v, text) ==
    IF v = "opencontrol" THEN Returned(text) ELSE ToolResult(text, FALSE)

\* what parse_slack_url returns for a resolved link
parseSuccess(v, ui) ==
    IF v = "opencontrol" THEN ReturnedObject(ui)
    ELSE ToolResult(jsonStringify(ui), FALSE)

\* the default of an unknown tool name (the MCP servers only)
unknownTool(name) == ToolResult(ErrorTexts.unknownTool \o name, TRUE)

\* the limit handed to conversations.replies: the schema default of the
\* MCP servers, the ?? of readSlackThread under opencontrol
effectiveLimit(request) ==
    IF request.limitGiven THEN request.limit ELSE DefaultLimit

\* include_reactions after the schema default or the ?? of readSlackThread
effectiveReactions(request) == request.include_reactions = "true"

\* const urlInfo = parseSlackUrl(url); if (!urlInfo) ...: what the handler
\* does with the value i that parseSlackUrl returned, after the calls made
resolution(made, i) ==
    [steps |-> made,
     outcome |-> IF i.kind = "info" THEN "resolved" ELSE "unparsed",
     info |-> i]

\* ReadThreadSchema.parse(args), GetChannelInfoSchema.parse(args) and
\* z.object({ url: z.string() }).parse(args) throw a ZodError: the
\* required string is missing from the arguments
schemaRejects(request) ==
    CASE request.tool \in {toolReadSlackThread, toolParseSlackUrl} ->
            request.url = Undefined
      [] request.tool = toolGetChannelInfo -> request.channel_id = Undefined
      [] OTHER -> FALSE

\* the two parser calls of a handler that takes a URL, with no gate
resolveUngated(u) == resolution(<<"parseSlackUrl">>, parseSlackUrl(u))

\* if (!isSlackUrl(url)) ...; const urlInfo = parseSlackUrl(url);
\* if (!urlInfo) ...
resolveGuarded(u) ==
    IF isSlackUrl(u) # "true"
    THEN [steps |-> <<"isSlackUrl">>, outcome |-> "rejected", info |-> Null]
    ELSE resolution(<<"isSlackUrl", "parseSlackUrl">>, parseSlackUrl(u))

\* the thread branch is never taken
hasThreadNever(i) == FALSE

\* if (urlInfo.threadTs)
hasThread(i) == Truthy(i.threadTs)

\* the Map that serves request r: one Map for every request
cacheShared(r) == 1

\* the Map that serves request r: the one its handler constructed
cacheOf(r) == r

----------------------------------------------------------------------------
(* The Slack API as the handlers see it: what each call answers.           *)

\* a message of a conversations.replies or conversations.history response
SlackMessage(user, text, ts, reactions, thread_ts, reply_count) ==
    [user |-> user, text |-> text, ts |-> ts, reactions |-> reactions,
     thread_ts |-> thread_ts, reply_count |-> reply_count]

\* the promise of an API call is rejected with an Error
Rejected(message) ==
    [outcome |-> "reject", message |-> message, ok |-> FALSE,
     error |-> Undefined, hasMessages |-> FALSE, messages |-> <<>>]

\* the response of conversations.replies or conversations.history
MessagesResponse(ok, error, hasMessages, messages) ==
    [outcome |-> "resolve", message |-> <<>>, ok |-> ok, error |-> error,
     hasMessages |-> hasMessages, messages |-> messages]

\* the response of users.info: user.real_name and user.name
UserResponse(outcome, real_name, name) ==
    [outcome |-> outcome, real_name |-> real_name, name |-> name]

\* the channel of a conversations.info response
Channel(name, topic, purpose, num_members, is_private, is_archived, created) ==
    [name |-> name, topic |-> topic, purpose |-> purpose,
     num_members |-> num_members, is_private |-> is_private,
     is_archived |-> is_archived, created |-> created]

NoChannel == Channel(Undefined, Undefined, Undefined, 0, FALSE, FALSE, 0)

\* the response of conversations.info
ChannelResponse(outcome, message, ok, error, hasChannel, channel) ==
    [outcome |-> outcome, message |-> message, ok |-> ok, error |-> error,
     hasChannel |-> hasChannel, channel |-> channel]

UserIds == {userU1, userU2}

\* an entry of a userCache Map: the cached name and the request that set it
\* (writer 0 and name Undefined: the Map has no entry for the user)
NoEntry == [name |-> Undefined, writer |-> 0]

EmptyCache == [u \in UserIds |-> NoEntry]

\* a formatMessage promise: suspended at its await, or resolved to a text
Awaiting == [state |-> "awaiting", text |-> <<>>]

Done(text) == [state |-> "done", text |-> text]

\* msg.user && !userCache.has(msg.user)
needsLookup(cache, msg) ==
    Truthy(msg.user) /\ cache[msg.user].writer = 0

\* userName after  userName = userCache.get(msg.user!) || userName
userNameOf(cache, msg) ==
    IF Truthy(msg.user) THEN OrElse(cache[msg.user].name, msg.user)
    ELSE MessageTexts.unknown

\* the users.info calls that messages.map(formatMessage) issues, in order
RECURSIVE lookupCalls(_, _)
lookupCalls(cache, msgs) ==
    IF Len(msgs) = 0 THEN <<>>
    ELSE (IF needsLookup(cache, Head(msgs))
          THEN <<UsersInfoCall(Head(msgs).user)>> ELSE <<>>)
         \o lookupCalls(cache, Tail(msgs))

\* the operations on the Map that messages.map(formatMessage) performs
\* before any lookup returns: a has for every message with a user, a get
\* for every message that goes on without a lookup
RECURSIVE cacheChecks(_, _)
cacheChecks(cache, msgs) ==
    IF Len(msgs) = 0 THEN <<>>
    ELSE LET msg == Head(msgs)
         IN  (IF Truthy(msg.user)
              THEN <<[op |-> "has", user |-> msg.user,
                      writer |-> cache[msg.user].writer]>>
              ELSE <<>>)
             \o (IF needsLookup(cache, msg) THEN <<>>
                 ELSE IF Truthy(msg.user)
                 THEN <<[op |-> "get", user |-> msg.user,
                         writer |-> cache[msg.user].writer]>>
                 ELSE <<[op |-> "get", user |-> Undefined, writer |-> 0]>>)
             \o cacheChecks(cache, Tail(msgs))

\* displayName with a catch branch that caches the word unknown
displayNameUnknownOnFailure(resp, user) ==
    IF resp.outcome = "reject" THEN MessageTexts.unknown
    ELSE OrElse(resp.real_name, OrElse(resp.name, user))

\* displayName of formatMessage, and the user id when the lookup fails
displayName(resp, user) ==
    IF resp.outcome = "reject" THEN user
    ELSE OrElse(resp.real_name, OrElse(resp.name, user))

----------------------------------------------------------------------------
(* The requests and the API answers the servers are run against.           *)

\* the longest list of messages a response carries
MaxMessages == 2

urlThread ==
    sHttps \o hAcme \o Slash \o kwArchives \o Slash \o idC123
    \o <<"/", "p">> \o tsCompact

urlThreadParam == urlThread \o qThread

urlClient ==
    sHttps \o hApp \o Slash \o kwClient \o Slash \o idTeam \o Slash
    \o idC123 \o Slash \o kwThread \o Slash \o idOther \o <<"-">>
    \o tsCanonical

urlChannel == sHttps \o hAcme \o Slash \o kwArchives \o Slash \o idC123

urlNotSlack ==
    sHttps \o hNotSlack \o Slash \o kwArchives \o Slash \o idC123
    \o <<"/", "p">> \o tsCompact

urlUnparsed == sHttps \o hAcme \o <<"/", "x">>

urlEmpty == <<>>

ThreadUrls == {urlThread, urlThreadParam, urlClient}

ServerUrls ==
    ThreadUrls \cup {urlChannel, urlNotSlack, urlUnparsed, urlEmpty}

msgParent ==
    SlackMessage(userU1, textHello, tsCanonical,
                 <<[name |-> reactionTada, count |-> 2],
                   [name |-> reactionEyes, count |-> 1]>>,
                 tsCanonical, 2)

msgAgain == SlackMessage(userU1, textAgain, tsReply, <<>>, tsCanonical, 0)

msgReply == SlackMessage(userU2, Undefined, tsReply, <<>>, tsCanonical, 0)

msgBot == SlackMessage(Undefined, textDeploy, Undefined, <<>>, Undefined, 0)

messageSourceA == <<msgParent, msgAgain, msgReply, msgBot>>

messageSourceB == <<msgBot, msgReply, msgParent, msgAgain>>

\* the lists of at most MaxMessages messages, two of them by one user
MessageLists ==
    {SubSeq(src, 1, n) :
        src \in {messageSourceA, messageSourceB}, n \in 0..MaxMessages}

MessageResponses ==
    {Rejected(errRateLimited),
     MessagesResponse(FALSE, errChannelNotFound, FALSE, <<>>),
     MessagesResponse(FALSE, Undefined, FALSE, <<>>),
     MessagesResponse(TRUE, Undefined, FALSE, <<>>)}
    \cup {MessagesResponse(TRUE, Undefined, TRUE, l) : l \in MessageLists}

okMessages == MessagesResponse(TRUE, Undefined, TRUE, <<msgParent, msgReply>>)

\* U1 has a real name and U2 only a name
usersNamed ==
    [u \in UserIds |->
        IF u = userU1 THEN UserResponse("resolve", nameAlice, userU1)
        ELSE UserResponse("resolve", Undefined, nameBob)]

\* the lookup of U1 fails and U2 has no name at all
usersFailing ==
    [u \in UserIds |->
        IF u = userU1 THEN UserResponse("reject", Undefined, Undefined)
        ELSE UserResponse("resolve", Undefined, Undefined)]

UserWorlds == {usersNamed, usersFailing}

channelFull ==
    Channel(channelGeneral, topicDaily, purposeTeam, 3, TRUE, FALSE,
            digitsValue(SubSeq(tsCanonical, 1, SecondsLen)))

ChannelResponses ==
    {ChannelResponse("reject", errRateLimited, FALSE, Undefined, FALSE,
                     NoChannel),
     ChannelResponse("resolve", <<>>, FALSE, errChannelNotFound, FALSE,
                     NoChannel),
     ChannelResponse("resolve", <<>>, TRUE, Undefined, FALSE, NoChannel),
     ChannelResponse("resolve", <<>>, TRUE, Undefined, TRUE, NoChannel),
     ChannelResponse("resolve", <<>>, TRUE, Undefined, TRUE, channelFull)}

okChannel ==
    ChannelResponse("resolve", <<>>, TRUE, Undefined, TRUE, channelFull)

World(replies, history, users, channel) ==
    [replies |-> replies, history |-> history, users |-> users,
     channel |-> channel]

Request(tool, u, channel_id, include_reactions, limitGiven, limit) ==
    [tool |-> tool, url |-> u, channel_id |-> channel_id,
     include_reactions |-> include_reactions, limitGiven |-> limitGiven,
     limit |-> limit]

Scenario(request, w, variants) ==
    [req |-> request, world |-> w, variants |-> variants]

McpPairs == {<<"plain", "refactored">>, <<"plain", "plain">>,
             <<"refactored", "verbose">>}

VariantPairs == McpPairs \cup {<<"verbose", "opencontrol">>}

\* the option pairs of read_slack_thread: include_reactions, then limit
ReadOptions ==
    {<<"true", FALSE, 0>>, <<"omitted", TRUE, 1>>, <<"false", TRUE, 0>>}

\* reads of a thread link, against every replies response
ThreadScenarios ==
    {Scenario(Request(toolReadSlackThread, u, <<>>, "true", FALSE, 0),
              World(rs, okMessages, us, okChannel), vs) :
        u \in ThreadUrls, rs \in MessageResponses, us \in UserWorlds,
        vs \in VariantPairs}
    \cup
    {Scenario(Request(toolReadSlackThread, urlThread, <<>>, o[1], o[2], o[3]),
              World(rs, okMessages, usersNamed, okChannel), vs) :
        o \in ReadOptions, rs \in MessageResponses, vs \in VariantPairs}

\* reads of a bare-channel link, against every history response
MessageScenarios ==
    {Scenario(Request(toolReadSlackThread, urlChannel, <<>>, o[1], o[2], o[3]),
              World(okMessages, hs, us, okChannel), vs) :
        o \in ReadOptions, hs \in MessageResponses, us \in UserWorlds,
        vs \in VariantPairs}

\* both URL tools on every URL
UrlScenarios ==
    {Scenario(Request(tool, u, <<>>, "omitted", FALSE, 0),
              World(okMessages, okMessages, usersNamed, okChannel), vs) :
        tool \in {toolReadSlackThread, toolParseSlackUrl},
        u \in ServerUrls, vs \in VariantPairs}

ChannelScenarios ==
    {Scenario(Request(toolGetChannelInfo, <<>>, id, "omitted", FALSE, 0),
              World(okMessages, okMessages, usersNamed, cr), vs) :
        id \in {idC123, <<>>}, cr \in ChannelResponses, vs \in VariantPairs}

\* a tool name the switch does not know; opencontrol routes by its own
\* tool list, outside this repository
UnknownScenarios ==
    {Scenario(Request(toolOther, <<>>, <<>>, "omitted", FALSE, 0),
              World(okMessages, okMessages, usersNamed, okChannel), vs) :
        vs \in McpPairs}

\* arguments without the required string, to each tool of the MCP
\* servers; the opencontrol tools are handed validated arguments
InvalidScenarios ==
    {Scenario(Request(tool, Undefined, Undefined, "omitted", FALSE, 0),
              World(okMessages, okMessages, usersNamed, okChannel), vs) :
        tool \in {toolReadSlackThread, toolGetChannelInfo, toolParseSlackUrl},
        vs \in McpPairs}

Scenarios ==
    ThreadScenarios \cup MessageScenarios \cup UrlScenarios
    \cup ChannelScenarios \cup UnknownScenarios \cup InvalidScenarios

\* the messages the API answers hold
ScenarioMessages ==
    UNION {{sc.world.replies.messages[k] :
                k \in DOMAIN sc.world.replies.messages}
           \cup {sc.world.history.messages[k] :
                k \in DOMAIN sc.world.history.messages} : sc \in Scenarios}

\* the names a message can be shown under: a display name, the user id,
\* or unknown
ScenarioNames ==
    {displayName(w[u], u) : w \in UserWorlds, u \in UserIds}
    \cup UserIds \cup {MessageTexts.unknown}

\* the text formatMessage builds for each message, option and name: a pure
\* function of the three
formattedTexts ==
    [msg \in ScenarioMessages, includeReactions \in BOOLEAN,
     userName \in ScenarioNames |->
        formatted(msg, includeReactions, userName)]

\* the text getChannelInfo builds for each channel id and channel
channelOutputs ==
    [channelId \in {sc.req.channel_id : sc \in Scenarios},
     channel \in {sc.world.channel.channel : sc \in Scenarios} |->
        channelOutput(channelId, channel)]

\* what the gate and the resolution come to on each url of a request: the
\* two are pure functions of the url
resolutions == [u \in {sc.req.url : sc \in Scenarios} |-> resolveGuarded(u)]

----------------------------------------------------------------------------
(* The servers as a state machine.  Two requests with the same arguments   *)
(* are served concurrently; an action is what a handler does between two   *)
(* awaits, and an API call returns whenever the action of its return is    *)
(* taken.                                                                  *)

Requests == {1, 2}

ServerInit ==
    /\ \E sc \in Scenarios :
        /\ req = sc.req
        /\ world = sc.world
        /\ variant = sc.variants
    /\ pc = [r \in Requests |-> "received"]
    /\ steps = [r \in Requests |-> <<>>]
    /\ calls = [r \in Requests |-> <<>>]
    /\ urlInfo = [r \in Requests |-> Pending]
    /\ userCache = [r \in Requests |-> EmptyCache]
    /\ cacheLog = [r \in Requests |-> <<>>]
    /\ fm = [r \in Requests |-> <<>>]
    /\ result = [r \in Requests |-> NoResult]
    /\ ParserIdle
    /\ TsIdle

\* the handler of request r returns or throws
Return(r, res) ==
    /\ result' = [result EXCEPT ![r] = res]
    /\ pc' = [pc EXCEPT ![r] = "done"]

\* the handler of request r fails at a site
Fail(r, site, detail) ==
    Return(r, failure(variant[r], req.tool, site, req.url, detail))

\* case "read_slack_thread", up to the await of the first API call; g is
\* what the gate and the resolution of the request's url came to
ReadSlackThread(r, g) ==
    /\ pc[r] = "received"
    /\ req.tool = toolReadSlackThread
    /\ IF schemaRejects(req)
       THEN /\ Fail(r, "schema", errValidation)
            /\ UNCHANGED <<steps, calls, urlInfo, userCache>>
       ELSE
           /\ steps' = [steps EXCEPT ![r] = g.steps]
           /\ CASE g.outcome = "rejected" ->
                    /\ Fail(r, "gate", <<>>)
                    /\ UNCHANGED <<calls, urlInfo, userCache>>
                [] g.outcome = "unparsed" ->
                    /\ Fail(r, "unparsed", <<>>)
                    /\ UNCHANGED <<calls, urlInfo, userCache>>
                [] g.outcome = "resolved" ->
                    /\ urlInfo' = [urlInfo EXCEPT ![r] = g.info]
                    /\ userCache' =
                        [userCache EXCEPT ![cacheOf(r)] = EmptyCache]
                    /\ IF hasThread(g.info)
                       THEN /\ calls' = [calls EXCEPT ![r] =
                                <<RepliesCall(g.info.channelId,
                                              g.info.threadTs,
                                              effectiveLimit(req))>>]
                            /\ pc' = [pc EXCEPT ![r] = "replies"]
                       ELSE /\ calls' = [calls EXCEPT ![r] =
                                <<HistoryCall(g.info.channelId,
                                              g.info.messageTs, TRUE, 1)>>]
                            /\ pc' = [pc EXCEPT ![r] = "history"]
                    /\ UNCHANGED result
    /\ UNCHANGED <<req, world, variant, cacheLog, fm, parserVars, tsVars>>

\* messages.map(formatMessage): every formatMessage runs to its await, or
\* to its end when it needs no lookup
StartFormatting(r, msgs) ==
    LET cache == userCache[cacheOf(r)]
    IN  /\ fm' = [fm EXCEPT ![r] =
                [i \in DOMAIN msgs |->
                    IF needsLookup(cache, msgs[i]) THEN Awaiting
                    ELSE Done(formattedTexts[msgs[i], effectiveReactions(req),
                                             userNameOf(cache, msgs[i])])]]
        /\ calls' = [calls EXCEPT ![r] = @ \o lookupCalls(cache, msgs)]
        /\ cacheLog' = [cacheLog EXCEPT ![r] = @ \o cacheChecks(cache, msgs)]
        /\ pc' = [pc EXCEPT ![r] = "users"]
        /\ UNCHANGED result

\* conversations.replies returns
RepliesReturn(r) ==
    /\ pc[r] = "replies"
    /\ LET resp == world.replies
       IN  IF resp.outcome = "reject"
           THEN /\ Fail(r, "rejected", resp.message)
                /\ UNCHANGED <<calls, cacheLog, fm>>
           ELSE IF ~resp.ok \/ ~resp.hasMessages
           THEN /\ Fail(r, "replies", OrElse(resp.error, ErrorTexts.unknownError))
                /\ UNCHANGED <<calls, cacheLog, fm>>
           ELSE StartFormatting(r, resp.messages)
    /\ UNCHANGED <<req, world, variant, steps, urlInfo, userCache,
                   parserVars, tsVars>>

\* conversations.history returns
HistoryReturn(r) ==
    /\ pc[r] = "history"
    /\ LET resp == world.history
       IN  IF resp.outcome = "reject"
           THEN /\ Fail(r, "rejected", resp.message)
                /\ UNCHANGED <<calls, cacheLog, fm>>
           ELSE IF ~resp.ok \/ ~resp.hasMessages \/ Len(resp.messages) = 0
           THEN /\ Fail(r, "history", OrElse(resp.error, ErrorTexts.messageNotFound))
                /\ UNCHANGED <<calls, cacheLog, fm>>
           ELSE StartFormatting(r, <<resp.messages[1]>>)
    /\ UNCHANGED <<req, world, variant, steps, urlInfo, userCache,
                   parserVars, tsVars>>

\* the messages request r is formatting
messagesOf(r) ==
    IF hasThread(urlInfo[r]) THEN world.replies.messages
    ELSE <<world.history.messages[1]>>

\* users.info returns to the formatMessage of message i, which runs to its
\* end: set the cache, read it back, build the text
UserInfoReturn(r, i) ==
    /\ pc[r] = "users"
    /\ i \in DOMAIN fm[r]
    /\ fm[r][i].state = "awaiting"
    /\ LET msg == messagesOf(r)[i]
           name == displayName(world.users[msg.user], msg.user)
           slot == cacheOf(r)
           cache == [userCache[slot] EXCEPT ![msg.user] =
                        [name |-> name, writer |-> r]]
       IN  /\ userCache' = [userCache EXCEPT ![slot] = cache]
           /\ cacheLog' = [cacheLog EXCEPT ![r] = @ \o
                <<[op |-> "set", user |-> msg.user,
                   writer |-> userCache[slot][msg.user].writer],
                  [op |-> "get", user |-> msg.user, writer |-> r]>>]
           /\ fm' = [fm EXCEPT ![r][i] =
                Done(formattedTexts[msg, effectiveReactions(req),
                                    userNameOf(cache, msg)])]
    /\ UNCHANGED <<req, world, variant, pc, steps, calls, urlInfo, result,
                   parserVars, tsVars>>

\* every formatMessage has resolved: the handler builds its output
Complete(r) ==
    /\ pc[r] = "users"
    /\ \A i \in DOMAIN fm[r] : fm[r][i].state = "done"
    /\ LET texts == [i \in DOMAIN fm[r] |-> fm[r][i].text]
           msgs == messagesOf(r)
       IN  IF hasThread(urlInfo[r])
           THEN Return(r, success(variant[r],
                    threadOutput(urlInfo[r], msgs, texts)))
           ELSE Return(r, success(variant[r],
                    messageOutput(urlInfo[r], texts[1])
                    \o (IF variant[r] = "verbose"
                        THEN repliesNoteVerbose(msgs[1])
                        ELSE repliesNote(msgs[1]))))
    /\ UNCHANGED <<req, world, variant, steps, calls, urlInfo, userCache,
                   cacheLog, fm, parserVars, tsVars>>

\* case "get_channel_info", up to the await of conversations.info
GetChannelInfo(r) ==
    /\ pc[r] = "received"
    /\ req.tool = toolGetChannelInfo
    /\ IF schemaRejects(req)
       THEN /\ Fail(r, "schema", errValidation)
            /\ UNCHANGED calls
       ELSE /\ calls' = [calls EXCEPT ![r] =
                    <<ConversationsInfoCall(req.channel_id)>>]
            /\ pc' = [pc EXCEPT ![r] = "channel"]
            /\ UNCHANGED result
    /\ UNCHANGED <<req, world, variant, steps, urlInfo, userCache, cacheLog,
                   fm, parserVars, tsVars>>

\* conversations.info returns
ChannelInfoReturn(r) ==
    /\ pc[r] = "channel"
    /\ LET resp == world.channel
       IN  IF resp.outcome = "reject"
           THEN Fail(r, "rejected", resp.message)
           ELSE IF ~resp.ok \/ ~resp.hasChannel
           THEN Fail(r, "channel", OrElse(resp.error, ErrorTexts.unknownError))
           ELSE Return(r, success(variant[r],
                    channelOutputs[req.channel_id, resp.channel]))
    /\ UNCHANGED <<req, world, variant, steps, calls, urlInfo, userCache,
                   cacheLog, fm, parserVars, tsVars>>

\* case "parse_slack_url"; g is what the gate and the resolution of the
\* request's url came to
ParseSlackUrl(r, g) ==
    /\ pc[r] = "received"
    /\ req.tool = toolParseSlackUrl
    /\ IF schemaRejects(req)
       THEN /\ Fail(r, "schema", errValidation)
            /\ UNCHANGED <<steps, urlInfo>>
       ELSE
           /\ steps' = [steps EXCEPT ![r] = g.steps]
           /\ urlInfo' = [urlInfo EXCEPT ![r] = g.info]
           /\ CASE g.outcome = "rejected" -> Fail(r, "gate", <<>>)
                [] g.outcome = "unparsed" -> Fail(r, "unparsed", <<>>)
                [] g.outcome = "resolved" ->
                    Return(r, parseSuccess(variant[r], g.info))
    /\ UNCHANGED <<req, world, variant, calls, userCache, cacheLog, fm,
                   parserVars, tsVars>>

\* the default case of the switch
UnknownTool(r) ==
    /\ pc[r] = "received"
    /\ req.tool \notin {toolReadSlackThread, toolGetChannelInfo,
                        toolParseSlackUrl}
    /\ variant[r] # "opencontrol"
    /\ Return(r, unknownTool(req.tool))
    /\ UNCHANGED <<req, world, variant, steps, calls, urlInfo, userCache,
                   cacheLog, fm, parserVars, tsVars>>

\* the requests are served in any interleaving; the two handlers that take
\* a URL start from the same gate and resolution of it
ServerNext ==
    \E r \in Requests :
        \/ \E g \in {resolutions[req.url]} :
                \/ ReadSlackThread(r, g)
                \/ ParseSlackUrl(r, g)
        \/ RepliesReturn(r)
        \/ HistoryReturn(r)
        \/ \E i \in 1..(MaxMessages + 1) : UserInfoReturn(r, i)
        \/ Complete(r)
        \/ GetChannelInfo(r)
        \/ ChannelInfoReturn(r)
        \/ UnknownTool(r)

ServerSpec == ServerInit /\ [][ServerNext]_vars

\* every awaited API call settles and the event loop then runs the
\* continuation that waits for it
ServerLiveSpec == ServerSpec /\ WF_vars(ServerNext)

----------------------------------------------------------------------------
(* Properties of the servers.                                              *)

\* request r is a read_slack_thread whose link has been resolved
ReadResolved(r) ==
    req.tool = toolReadSlackThread /\ urlInfo[r].kind = "info"

\* the positions in the call log of request r of the calls of a method
CallsTo(r, method) ==
    {k \in DOMAIN calls[r] : calls[r][k].method = method}

\* C14: after a successful resolution, read_slack_thread issues exactly one
\* conversations.replies call keyed on (channelId, threadTs) and no
\* conversations.history call when threadTs is set, and exactly one
\* conversations.history call with latest = messageTs, inclusive = true and
\* limit = 1 and no conversations.replies call when threadTs is absent.
C14_FetchFollowsThreadTs ==
    \A r \in Requests :
        ReadResolved(r) =>
            IF urlInfo[r].threadTs # Undefined
            THEN /\ CallsTo(r, "conversations.replies") = {1}
                 /\ CallsTo(r, "conversations.history") = {}
                 /\ calls[r][1].channel = urlInfo[r].channelId
                 /\ calls[r][1].ts = urlInfo[r].threadTs
            ELSE /\ CallsTo(r, "conversations.history") = {1}
                 /\ CallsTo(r, "conversations.replies") = {}
                 /\ calls[r][1].channel = urlInfo[r].channelId
                 /\ calls[r][1].latest = urlInfo[r].messageTs
                 /\ calls[r][1].inclusive
                 /\ calls[r][1].limit = 1

\* a link with a thread_ts parameter of its own has been read to the end
C14_Witness ==
    \E r \in Requests :
        /\ req.url = urlThreadParam
        /\ ReadResolved(r)
        /\ pc[r] = "done"
        /\ calls[r][1].method = "conversations.replies"
        /\ calls[r][1].ts # urlInfo[r].messageTs
        /\ Len(calls[r]) > 1

\* C15: read_slack_thread never issues a message fetch
\* (conversations.replies or conversations.history) whose timestamp key is
\* the empty string.
C15_NoFetchWithEmptyTimestamp ==
    \A r \in Requests :
        \A k \in DOMAIN calls[r] :
            /\ calls[r][k].method = "conversations.replies"
                    => calls[r][k].ts # <<>>
            /\ calls[r][k].method = "conversations.history"
                    => calls[r][k].latest # <<>>

\* the words every unparsed error carries
txtCouldNotParse ==
    <<"C", "o", "u", "l", "d", " ", "n", "o", "t", " ", "p", "a", "r", "s",
      "e">>

\* the tool of the request takes a URL
UrlTool ==
    req.tool \in {toolReadSlackThread, toolParseSlackUrl} /\ ~schemaRejects(req)

\* request r ended in an error: an isError result or a thrown Error
EndedInError(r) ==
    /\ pc[r] = "done"
    /\ result[r].kind \in {"result", "thrown"}
    /\ result[r].isError

\* the gate rejects the URL of the request
GateRejects == isSlackUrl(req.url) # "true"

\* the URL of the request passes the gate and does not resolve
Unparsed == ~GateRejects /\ parseSlackUrl(req.url).kind # "info"

\* request r evaluated the gate first, resolved only a URL the gate let
\* through, and issued no API call for a URL that is rejected or unparsed
GateOrder(r) ==
    /\ steps[r] \in {<<>>, <<"isSlackUrl">>, <<"isSlackUrl", "parseSlackUrl">>}
    /\ pc[r] # "received" =>
          steps[r] = IF GateRejects THEN <<"isSlackUrl">>
                     ELSE <<"isSlackUrl", "parseSlackUrl">>
    /\ (GateRejects \/ Unparsed) => calls[r] = <<>>

\* the text by which the server of request r reports a rejected URL
GateText(r) ==
    IF variant[r] = "verbose"
    THEN <<"\"">> \o req.url \o <<"\"">>
         \o SubSeq(VerboseTexts.notValidSlackUrl, 2, Len(VerboseTexts.notValidSlackUrl))
    ELSE ErrorTexts.invalidSlackUrl

\* a finished request on a rejected URL ended in an error with that text
RejectedError(r, text) ==
    (pc[r] = "done" /\ GateRejects) =>
        EndedInError(r) /\ IsSubstring(text, result[r].text)

\* a finished request on an unparsed URL ended in a Could not parse error
\* that does not carry the given text
UnparsedError(r, text) ==
    (pc[r] = "done" /\ Unparsed) =>
        /\ EndedInError(r)
        /\ IsSubstring(txtCouldNotParse, result[r].text)
        /\ ~IsSubstring(text, result[r].text)

\* C16 as stated: in every server, a tool that takes a URL evaluates
\* isSlackUrl before parseSlackUrl; a rejected URL yields the error
\* Invalid Slack URL without a call of parseSlackUrl; an unparsed URL
\* yields a distinct Could not parse error; neither issues an API call.
C16_InvalidSlackUrlEverywhere ==
    \A r \in Requests :
        UrlTool =>
            /\ GateOrder(r)
            /\ RejectedError(r, ErrorTexts.invalidSlackUrl)
            /\ UnparsedError(r, ErrorTexts.invalidSlackUrl)

\* C16, amended: as stated, but the error of a rejected URL reads
\* Invalid Slack URL in index.ts, part_000 with slack.ts and the
\* opencontrol tools, and "<url>" does not appear to be a valid Slack URL
\* in part_001.
C16_GateBeforeResolve ==
    \A r \in Requests :
        UrlTool =>
            /\ GateOrder(r)
            /\ RejectedError(r, GateText(r))
            /\ UnparsedError(r, GateText(r))

\* the verbose server has rejected a URL that parseSlackUrl would resolve
C16_Witness ==
    \E r \in Requests :
        /\ variant[r] = "verbose"
        /\ req.url = urlNotSlack
        /\ parseSlackUrl(req.url).kind = "info"
        /\ pc[r] = "done"
        /\ steps[r] = <<"isSlackUrl">>
        /\ result[r].isError

\* the lines of a text
Lines(text) == split(text, "\n")

\* the property line JSON.stringify prints for a key and a plain value
PropertyLine(key, value, last) ==
    <<" ", " ", "\"">> \o key \o <<"\"", ":", " ", "\"">> \o value
    \o <<"\"">> \o (IF last THEN <<>> ELSE <<",">>)

\* the keys and values a serialised SlackUrlInfo must show
ExpectedProperties(i) ==
    (IF i.workspace # Undefined THEN <<<<InfoKeys.workspace, i.workspace>>>>
     ELSE <<>>)
    \o <<<<InfoKeys.channelId, i.channelId>>, <<InfoKeys.messageTs, i.messageTs>>>>
    \o (IF i.threadTs # Undefined THEN <<<<InfoKeys.threadTs, i.threadTs>>>>
        ELSE <<>>)

\* the text is the JSON object of exactly those keys and values
IsJsonOf(text, props) ==
    /\ Len(Lines(text)) = Len(props) + 2
    /\ Lines(text)[1] = <<"{">>
    /\ Lines(text)[Len(props) + 2] = <<"}">>
    /\ \A k \in DOMAIN props :
          Lines(text)[k + 1] =
              PropertyLine(props[k][1], props[k][2], k = Len(props))

\* C17: parse_slack_url issues no Slack API call; for a resolvable Slack
\* URL it returns the SlackUrlInfo (as JSON text from the MCP servers, as
\* the object itself from the opencontrol tool) with exactly the keys
\* workspace, channelId, messageTs and threadTs, the two optional ones
\* left out when absent; for every other URL it ends in an error.
C17_ParseToolSerialises ==
    \A r \in Requests :
        req.tool = toolParseSlackUrl =>
            /\ calls[r] = <<>>
            /\ pc[r] = "done" =>
                  IF GateRejects \/ Unparsed THEN EndedInError(r)
                  ELSE /\ ~result[r].isError
                       /\ IF variant[r] = "opencontrol"
                          THEN /\ result[r].kind = "object"
                               /\ result[r].value = parseSlackUrl(req.url)
                          ELSE /\ result[r].kind = "result"
                               /\ IsJsonOf(result[r].text,
                                    ExpectedProperties(parseSlackUrl(req.url)))

\* a client-thread link, which has no workspace, has been serialised
C17_Witness ==
    \E r \in Requests :
        /\ req.tool = toolParseSlackUrl
        /\ req.url = urlClient
        /\ variant[r] = "plain"
        /\ pc[r] = "done"
        /\ Len(Lines(result[r].text)) = 5
        /\ ~IsSubstring(InfoKeys.workspace, result[r].text)

\* C18: the user-name cache belongs to one request: the Map of a request
\* is empty until that request has formatted a message, and no has, get
\* or set of a request ever meets an entry that another request wrote.
C18_CachePerRequest ==
    \A r \in Requests :
        /\ pc[r] \in {"received", "replies", "history"} =>
              userCache[r] = EmptyCache
        /\ \A u \in UserIds : userCache[r][u].writer \in {0, r}
        /\ \A k \in DOMAIN cacheLog[r] : cacheLog[r][k].writer \in {0, r}

\* two requests of one server hold an entry for the same user at once,
\* the second request still formatting
C18_Witness ==
    /\ variant = <<"plain", "plain">>
    /\ userCache[1][userU1].writer = 1
    /\ userCache[2][userU1].writer = 2
    /\ pc[1] = "done"
    /\ pc[2] = "users"

\* the limit of the request: 100 when omitted
RequestedLimit == IF req.limitGiven THEN req.limit ELSE 100

\* C19: read_slack_thread renders at most limit messages, whatever the
\* Slack API returns.
C19_AtMostLimitMessages ==
    \A r \in Requests :
        (req.tool = toolReadSlackThread /\ pc[r] = "done"
            /\ ~result[r].isError)
        => Len(fm[r]) <= RequestedLimit

\* C20: index.ts and part_000 with slack.ts, given the same request and
\* the same API answers, issue the same calls in the same order and
\* return the same text and the same isError flag.
C20_PlainEqualsRefactored ==
    (variant = <<"plain", "refactored">> /\ pc[1] = "done" /\ pc[2] = "done")
        => calls[1] = calls[2] /\ result[1] = result[2]

\* both servers have rendered a thread after looking up its users
C20_Witness ==
    /\ variant = <<"plain", "refactored">>
    /\ pc[1] = "done"
    /\ pc[2] = "done"
    /\ req.tool = toolReadSlackThread
    /\ ~result[2].isError
    /\ Len(calls[2]) > 2

----------------------------------------------------------------------------
(* Properties of the CallTool request handler as a whole.                  *)

\* request r is served by a CallTool request handler, that of an MCP server
CallToolHandler(r) == variant[r] # "opencontrol"

ConversationMethods ==
    {"conversations.replies", "conversations.history", "conversations.info"}

\* what the API answers to call k of request r
Answer(r, k) ==
    CASE calls[r][k].method = "conversations.replies" -> world.replies
      [] calls[r][k].method = "conversations.history" -> world.history
      [] calls[r][k].method = "conversations.info" -> world.channel
      [] calls[r][k].method = "users.info" -> world.users[calls[r][k].user]

\* the calls of request r whose promise the API rejects
RejectedCalls(r) ==
    {k \in DOMAIN calls[r] : Answer(r, k).outcome = "reject"}

\* the result of request r is an isError result with exactly this text
IsErrorResult(r, text) ==
    /\ result[r].kind = "result"
    /\ result[r].isError
    /\ result[r].text = text

\* readSlackThread or getChannelInfo of slack.ts throws in request r: the
\* gate, the resolution or a response that is not ok
ThrownBySlackTs(r) ==
    /\ variant[r] = "refactored"
    /\ req.tool \in {toolReadSlackThread, toolGetChannelInfo}
    /\ ~schemaRejects(req)
    /\ \/ req.tool = toolReadSlackThread /\ (GateRejects \/ Unparsed)
       \/ \E k \in DOMAIN calls[r] :
            /\ calls[r][k].method \in ConversationMethods
            /\ Answer(r, k).outcome = "resolve"
            /\ ~Answer(r, k).ok

\* no exception leaves the handler of request r, the request has a result
\* exactly when it is finished, and each kind of failure, the rejected
\* calls counted being those of the given methods, gave an isError result
ExceptionsBecomeResults(r, methods) ==
    /\ result[r].kind \in {"pending", "result"}
    /\ (pc[r] = "done") <=> (result[r].kind = "result")
    /\ pc[r] = "done" =>
        /\ schemaRejects(req) =>
              IsErrorResult(r, ErrorTexts.prefix \o errValidation)
        /\ \A k \in RejectedCalls(r) :
              calls[r][k].method \in methods =>
                /\ result[r].isError
                /\ calls[r][k].method \in ConversationMethods =>
                      IsErrorResult(r,
                          ErrorTexts.prefix \o Answer(r, k).message)
        /\ ThrownBySlackTs(r) =>
              /\ result[r].isError
              /\ startsWith(result[r].text, ErrorTexts.prefix)
        /\ req.tool \notin {toolReadSlackThread, toolGetChannelInfo,
                            toolParseSlackUrl} =>
              IsErrorResult(r, ErrorTexts.unknownTool \o req.tool)

\* a result, once returned, is the result of the request for good
ResultReturnedOnce ==
    \A r \in Requests :
        result[r] # NoResult => result'[r] = result[r]

----------------------------------------------------------------------------
(* Properties of the concurrent formatting of the messages.                *)

\* the positions in the call log of request r of the lookups of user u
LookupsOf(r, u) ==
    {k \in DOMAIN calls[r] :
        calls[r][k].method = "users.info" /\ calls[r][k].user = u}

\* C23: within one read_slack_thread request, users.info is called at most
\* once per distinct user id, although the messages are formatted
\* concurrently over one shared cache.
C23_LookupOncePerUser ==
    \A r \in Requests :
        \A u \in UserIds : Cardinality(LookupsOf(r, u)) <= 1

\* request r has returned a rendered thread
ThreadRendered(r) ==
    /\ req.tool = toolReadSlackThread
    /\ pc[r] = "done"
    /\ ~result[r].isError
    /\ urlInfo[r].kind = "info"
    /\ urlInfo[r].threadTs # Undefined

\* the lines of the result of request r that open an entry: **name** (...
EntryHeads(r) ==
    SelectSeq([k \in DOMAIN Lines(result[r].text) |-> k],
              LAMBDA k : startsWith(Lines(result[r].text)[k], <<"*", "*">>))

\* the display name of the user of a message, as users.info answers it
OwnName(msg) ==
    IF msg.user = Undefined THEN <<"u", "n", "k", "n", "o", "w", "n">>
    ELSE IF world.users[msg.user].outcome = "reject" THEN msg.user
    ELSE IF world.users[msg.user].real_name \notin {Undefined, <<>>}
    THEN world.users[msg.user].real_name
    ELSE IF world.users[msg.user].name \notin {Undefined, <<>>}
    THEN world.users[msg.user].name
    ELSE msg.user

\* the text line of a message
OwnText(msg) ==
    IF msg.text \in {Undefined, <<>>}
    THEN <<"(", "n", "o", " ", "t", "e", "x", "t", ")">>
    ELSE msg.text

\* the order in which the lookups of request r completed: the users of
\* the set operations on its Map
CompletionOrder(r) ==
    SelectSeq([k \in DOMAIN cacheLog[r] |->
                  IF cacheLog[r][k].op = "set" THEN cacheLog[r][k].user
                  ELSE <<>>],
              LAMBDA u : u # <<>>)

\* C24: the rendered thread lists the messages in the order of the
\* conversations.replies response, one entry per response message, the
\* header count being the number of entries, whatever the order in which
\* the users.info lookups complete; each entry shows the display name of
\* its own message's user.
C24_EntriesInResponseOrder ==
    \A r \in Requests :
        ThreadRendered(r) =>
            LET msgs == world.replies.messages
                lines == Lines(result[r].text)
                heads == EntryHeads(r)
            IN  /\ Len(heads) = Len(msgs)
                /\ lines[1] = <<"#", " ", "S", "l", "a", "c", "k", " ", "T",
                                "h", "r", "e", "a", "d", " ", "(">>
                              \o decimal(Len(heads))
                              \o <<" ", "m", "e", "s", "s", "a", "g", "e",
                                   "s", ")">>
                /\ \A k \in DOMAIN msgs :
                      /\ startsWith(lines[heads[k]],
                            <<"*", "*">> \o OwnName(msgs[k])
                            \o <<"*", "*", " ", "(">>)
                      /\ lines[heads[k] + 1] = OwnText(msgs[k])

\* a thread of two users has been rendered after the lookup of the second
\* message completed before that of the first
C24_Witness ==
    \E r \in Requests :
        /\ ThreadRendered(r)
        /\ Len(world.replies.messages) = 2
        /\ world.replies.messages[1].user = userU1
        /\ world.replies.messages[2].user = userU2
        /\ CompletionOrder(r) = <<userU2, userU1>>
        /\ Len(EntryHeads(r)) = 2

\* the text opens with **name** (
ShownAs(text, name) ==
    startsWith(text, <<"*", "*">> \o name \o <<"*", "*", " ", "(">>)

\* the fetch of the messages of request r went well: the link resolved
\* and conversations.replies or conversations.history answered messages
MessagesFetched(r) ==
    /\ ReadResolved(r)
    /\ Answer(r, 1).outcome = "resolve"
    /\ Answer(r, 1).ok
    /\ Answer(r, 1).hasMessages
    /\ Len(Answer(r, 1).messages) > 0

\* C25: a failing users.info lookup never fails the read_slack_thread
\* request: formatMessage caches the raw user id as the name of that user
\* and the request still returns the rendered messages; once formatMessage
\* has completed for a message with a user id the cache holds an entry
\* for that id; a message without a user id is shown as unknown and no
\* lookup is issued for it.
C25_LookupFailureTolerated ==
    \A r \in Requests :
        (req.tool = toolReadSlackThread /\ pc[r] \in {"users", "done"}
            /\ MessagesFetched(r)) =>
            /\ pc[r] = "done" => ~result[r].isError
            /\ \A k \in DOMAIN calls[r] :
                  calls[r][k].method = "users.info" =>
                      calls[r][k].user \in UserIds
            /\ Cardinality({k \in DOMAIN calls[r] :
                                calls[r][k].method = "users.info"})
                  <= Cardinality({i \in DOMAIN fm[r] :
                                messagesOf(r)[i].user # Undefined})
            /\ \A i \in DOMAIN fm[r] :
                  fm[r][i].state = "done" =>
                      LET u == messagesOf(r)[i].user
                      IN  IF u = Undefined
                          THEN ShownAs(fm[r][i].text,
                                       <<"u", "n", "k", "n", "o", "w", "n">>)
                          ELSE /\ userCache[r][u].writer = r
                               /\ world.users[u].outcome = "reject" =>
                                     /\ userCache[r][u].name = u
                                     /\ ShownAs(fm[r][i].text, u)

\* a thread has been rendered although the lookup of its first user failed
C25_Witness ==
    \E r \in Requests :
        /\ ThreadRendered(r)
        /\ world.users[userU1].outcome = "reject"
        /\ LookupsOf(r, userU1) # {}
        /\ userCache[r][userU1].name = userU1
        /\ ShownAs(fm[r][1].text, userU1)

----------------------------------------------------------------------------
(* Properties of the timestamp conversion applied a second time.           *)

\* the messageTs of the resolved link, put through parseSlackTimestamp again
Reresolved == parseSlackTimestamp(info.messageTs)

============================================================================
